---- MODULE Spec2Model ----
(***************************************************************************)
(* Template-matching and text-compositing pipeline of the meme generator:  *)
(* the embedding index (ai_services/image_vector_db.py), the region        *)
(* merging of the text detector (ai_services/meme_service.py) and the two  *)
(* compositors (bot/routes.py, MemeService.smart_generate_meme).           *)
(*                                                                         *)
(* Scores are cosine similarities in units of 1/One: embeddings are        *)
(* fixed-point unit vectors of length Scale, so a dot product of two of    *)
(* them lies in -One..One and 0.8 is the score (8 * One) \div 10.          *)
(***************************************************************************)
EXTENDS Integers, Sequences, FiniteSets, TLC

VARIABLES
    db,        \* the shared ImageVectorDB object: embeddings, image_paths
    file,      \* the backing .npz file
    last,      \* what the last completed operation was and returned
    cdb,       \* concurrent adds: the two ImageVectorDB objects
    cfile,     \* concurrent adds: the backing file
    pc,        \* concurrent adds: position of each thread in add_image
    tpath,     \* concurrent adds: the path each thread adds
    tret,      \* concurrent adds: what each add_image returned
    towner,    \* concurrent adds: the object each thread calls add_image on
    tsnap,     \* concurrent adds: the arrays each _save is writing
    regs,      \* region merging: the detections handed to the merge
    merged,    \* region merging: the result of the merge(s)
    ocr_cache, \* text detection: the ocr_<hash>.pkl files of the cache directory
    det,       \* text detection: what the last detect_text call did and returned
    args,      \* font fit and box transform: the arguments of the call
    result,    \* font fit and box transform: what the call returned
    req,       \* one request of the route compositor, step by step
    now,       \* worker: int(time.time()), the second the clock shows
    disk,      \* worker: the files of the data directories, by name
    handler,   \* worker: the request each thread is handling
    constructed, \* worker: how often each model constructor has run
    hashes     \* worker: the images whose OCR result is in the cache

vars == <<db, file, last, cdb, cfile, pc, tpath, tret, towner, tsnap, regs, merged,
          ocr_cache, det, args, result, req, now, disk, handler, constructed,
          hashes>>
idxVars == <<db, file, last>>
concVars == <<cdb, cfile, pc, tpath, tret, towner, tsnap>>
mergeVars == <<regs, merged>>
detectVars == <<ocr_cache, det>>
pureVars == <<args, result>>
serveVars == <<now, disk, handler, constructed, hashes>>

----------------------------------------------------------------------------
(* Bounds of the model *)

MaxIdx == 2

----------------------------------------------------------------------------
(* Images and their embeddings *)

\* image files the index operations are called with, and the files a
\* compositor request may bring
Paths == {"a", "b", "c", "d"}
RequestPaths == Paths \cup {"e"}

\* what the CLIP model computes for each file; "d" is a copy of "a"
Feature == [a |-> <<1, 0>>, b |-> <<4, 3>>, c |-> <<-1, 1>>,
            d |-> <<1, 0>>, e |-> <<3, 4>>]

Scale == 10
One == Scale * Scale

Abs(x) == IF x < 0 THEN -x ELSE x

\* one component of raw / ||raw||, in fixed point (n2 is ||raw||^2)
Component(x, n2) ==
    LET m == CHOOSE c \in 0..Scale :
                 /\ c * c * n2 <= x * x * One
                 /\ (c + 1) * (c + 1) * n2 > x * x * One
    IN  IF x < 0 THEN -m ELSE m

\* embedding / np.linalg.norm(embedding)
Normalize(raw) ==
    LET n2 == raw[1] * raw[1] + raw[2] * raw[2]
    IN  <<Component(raw[1], n2), Component(raw[2], n2)>>

\* the embedding of each file
EmbeddingOf == [p \in RequestPaths |-> Normalize(Feature[p])]
Embedding(p) == EmbeddingOf[p]


\* np.dot of two embeddings
Dot(u, v) == u[1] * v[1] + u[2] * v[2]

None == "None"

----------------------------------------------------------------------------
(* The index object and its file *)

EmptyIndex == [embeddings |-> <<>>, image_paths |-> <<>>]

MissingFile == [state |-> "missing", embeddings |-> <<>>, image_paths |-> <<>>]
CorruptFile == [state |-> "corrupt", embeddings |-> <<>>, image_paths |-> <<>>]

\* a _load that keeps the embeddings it read before np.load raised
LoadPartial(f) ==
    IF f.state = "ok"
    THEN [embeddings |-> f.embeddings, image_paths |-> f.image_paths]
    ELSE [embeddings |-> f.embeddings, image_paths |-> <<>>]

\* ImageVectorDB._load
Load(f) ==
    IF f.state = "ok"
    THEN [embeddings |-> f.embeddings, image_paths |-> f.image_paths]
    ELSE EmptyIndex

\* ImageVectorDB._save: np.savez of both lists; a write that raises is
\* caught and logged, and the old file stays
SaveOutcomes == {"ok", "fail"}

Save(ix, f, outcome) ==
    IF outcome = "ok"
    THEN [state |-> "ok", embeddings |-> ix.embeddings,
          image_paths |-> ix.image_paths]
    ELSE f

InSeq(x, s) == \E i \in 1..Len(s) : s[i] = x

\* an add_image without the "already in database" check
AddImageNoCheck(ix, f, p, ok, outcome) ==
    IF ~ok
    THEN [index |-> ix, file |-> f, ret |-> FALSE,
          branch |-> "embed_failed", saved |-> FALSE]
    ELSE LET nix == [embeddings |-> Append(ix.embeddings, Embedding(p)),
                     image_paths |-> Append(ix.image_paths, p)]
         IN  [index |-> nix, file |-> Save(nix, f, outcome), ret |-> TRUE,
              branch |-> "added", saved |-> TRUE]

\* an add_image that records the path before it asks for the embedding
AddImagePathFirst(ix, f, p, ok, outcome) ==
    IF InSeq(p, ix.image_paths)
    THEN [index |-> ix, file |-> f, ret |-> TRUE,
          branch |-> "present", saved |-> FALSE]
    ELSE IF ~ok
    THEN [index |-> [ix EXCEPT !.image_paths = Append(ix.image_paths, p)],
          file |-> f, ret |-> FALSE,
          branch |-> "embed_failed", saved |-> FALSE]
    ELSE LET nix == [embeddings |-> Append(ix.embeddings, Embedding(p)),
                     image_paths |-> Append(ix.image_paths, p)]
         IN  [index |-> nix, file |-> Save(nix, f, outcome), ret |-> TRUE,
              branch |-> "added", saved |-> TRUE]

\* ImageVectorDB.add_image as a function of the object and the file; ok is
\* whether get_image_embedding returns (from its lru_cache or the model) or
\* raises
AddImageResult(ix, f, p, ok, outcome) ==
    IF InSeq(p, ix.image_paths)
    THEN [index |-> ix, file |-> f, ret |-> TRUE,
          branch |-> "present", saved |-> FALSE]
    ELSE IF ~ok
    THEN [index |-> ix, file |-> f, ret |-> FALSE,
          branch |-> "embed_failed", saved |-> FALSE]
    ELSE LET nix == [embeddings |-> Append(ix.embeddings, Embedding(p)),
                     image_paths |-> Append(ix.image_paths, p)]
         IN  [index |-> nix, file |-> Save(nix, f, outcome), ret |-> TRUE,
              branch |-> "added", saved |-> TRUE]

\* similarities = np.dot(np.stack(self.embeddings), query_emb)
Similarities(ix, q) == [i \in 1..Len(ix.embeddings) |-> Dot(ix.embeddings[i], q)]

\* an argmax that returns the last index holding the maximum
ArgMaxLast(sims) ==
    CHOOSE i \in DOMAIN sims :
        /\ \A j \in DOMAIN sims : sims[j] <= sims[i]
        /\ \A j \in DOMAIN sims : j > i => sims[j] < sims[i]

\* np.argmax: the first index holding the maximum
ArgMax(sims) ==
    CHOOSE i \in DOMAIN sims :
        /\ \A j \in DOMAIN sims : sims[j] <= sims[i]
        /\ \A j \in DOMAIN sims : j < i => sims[j] < sims[i]

\* a search that tests "max_sim > threshold"
SearchResultStrict(ix, q, threshold) ==
    IF ix.embeddings = <<>>
    THEN [path |-> None, score |-> 0]
    ELSE LET sims == Similarities(ix, q)
             idx == ArgMax(sims)
         IN  IF sims[idx] > threshold
             THEN [path |-> ix.image_paths[idx], score |-> sims[idx]]
             ELSE [path |-> None, score |-> sims[idx]]

\* ImageVectorDB.search, once the query embedding q is known
SearchResult(ix, q, threshold) ==
    IF ix.embeddings = <<>>
    THEN [path |-> None, score |-> 0]
    ELSE LET sims == Similarities(ix, q)
             idx == ArgMax(sims)
         IN  IF sims[idx] >= threshold
             THEN [path |-> ix.image_paths[idx], score |-> sims[idx]]
             ELSE [path |-> None, score |-> sims[idx]]

\* a selection that partitions at k instead of -k: the m smallest, best first
TopIndicesSmallest(sims, k) ==
    LET n == Len(sims)
        m == IF n <= k THEN n ELSE k
    IN  {s \in [1..m -> 1..n] :
            /\ \A i, j \in 1..m : i < j => s[i] # s[j] /\ sims[s[i]] >= sims[s[j]]
            /\ \A x \in 1..n : (\A i \in 1..m : s[i] # x) =>
                                   \A i \in 1..m : sims[s[i]] <= sims[x]}

\* the orders np.argsort(...)[::-1] and np.argpartition(..., -k)[-k:] may give:
\* the m = min(n, k) best indices, best first, ties in any order
TopIndices(sims, k) ==
    LET n == Len(sims)
        m == IF n <= k THEN n ELSE k
    IN  {s \in [1..m -> 1..n] :
            /\ \A i, j \in 1..m : i < j => s[i] # s[j] /\ sims[s[i]] >= sims[s[j]]
            /\ \A x \in 1..n : (\A i \in 1..m : s[i] # x) =>
                                   \A i \in 1..m : sims[s[i]] >= sims[x]}

\* the loop of search_top_k: keep the entries of top that reach the threshold
RECURSIVE FilterTop(_, _, _, _)
FilterTop(ix, sims, top, threshold) ==
    IF top = <<>> THEN <<>>
    ELSE LET idx == Head(top)
             rest == FilterTop(ix, sims, Tail(top), threshold)
         IN  IF sims[idx] >= threshold
             THEN <<[path |-> ix.image_paths[idx], score |-> sims[idx],
                     idx |-> idx]>> \o rest
             ELSE rest

\* ImageVectorDB.search_top_k: the result lists it can return; raises is
\* whether the query's embedding could not be extracted
SearchTopKResults(ix, q, k, threshold, raises) ==
    IF ix.embeddings = <<>> \/ k <= 0 THEN {<<>>}
    ELSE IF raises THEN {<<>>}
    ELSE LET sims == Similarities(ix, q)
         IN  {FilterTop(ix, sims, top, threshold) : top \in TopIndices(sims, k)}

----------------------------------------------------------------------------
(* What the last operation was and returned *)

NoLast ==
    [op |-> "none", path |-> None, threshold |-> 0, k |-> 0, ret |-> None,
     score |-> 0, results |-> <<>>, branch |-> None, saved |-> FALSE,
     status |-> None, from_template |-> None, base |-> None,
     similarity_score |-> 0]

Str(b) == IF b THEN "True" ELSE "False"

\* thresholds the searches are called with (0.0, 0.8, 1.0)
Thresholds == {0, (8 * One) \div 10, One}

----------------------------------------------------------------------------
(* Operations on the index, one object, one caller at a time *)

\* ImageVectorDB.add_image(p)
AddImage(p, ok, outcome) ==
    LET r == AddImageResult(db, file, p, ok, outcome)
    IN  /\ Len(db.image_paths) < MaxIdx \/ r.branch # "added"
        /\ db' = r.index
        /\ file' = r.file
        /\ last' = [NoLast EXCEPT !.op = "add", !.path = p, !.ret = Str(r.ret),
                                  !.branch = r.branch, !.saved = r.saved]
        /\ UNCHANGED <<concVars, mergeVars, detectVars, pureVars, req, serveVars>>

\* ImageVectorDB.search(p, threshold)
Search(p, threshold, ok) ==
    /\ last' =
         IF db.embeddings = <<>>
         THEN [NoLast EXCEPT !.op = "search", !.path = p,
                             !.threshold = threshold, !.branch = "empty"]
         ELSE IF ~ok
         THEN [NoLast EXCEPT !.op = "search", !.path = p,
                             !.threshold = threshold, !.ret = "raise",
                             !.branch = "embed_failed"]
         ELSE LET r == SearchResult(db, Embedding(p), threshold)
              IN  [NoLast EXCEPT !.op = "search", !.path = p,
                                 !.threshold = threshold, !.ret = r.path,
                                 !.score = r.score, !.branch = "searched"]
    /\ UNCHANGED <<db, file, concVars, mergeVars, detectVars, pureVars, req, serveVars>>

\* ImageVectorDB.search_top_k(p, k, threshold)
SearchTopK(p, k, threshold, ok) ==
    LET looked == db.embeddings # <<>> /\ k > 0
    IN  /\ \E res \in SearchTopKResults(db, Embedding(p), k, threshold, ~ok) :
               last' = [NoLast EXCEPT !.op = "search_top_k", !.path = p,
                                      !.threshold = threshold, !.k = k,
                                      !.results = res,
                                      !.branch = IF ~looked THEN "empty"
                                                 ELSE IF ~ok THEN "embed_failed"
                                                 ELSE "searched"]
        /\ UNCHANGED <<db, file, concVars, mergeVars, detectVars, pureVars, req, serveVars>>

\* ImageVectorDB.__init__: a new object, loaded from the backing file
Open ==
    /\ db' = Load(file)
    /\ last' = [NoLast EXCEPT !.op = "open", !.branch = file.state]
    /\ UNCHANGED <<file, concVars, mergeVars, detectVars, pureVars, req, serveVars>>

\* the backing file is removed, or damaged so that np.load raises on it,
\* outside the program
DamageFile ==
    /\ \E f \in {MissingFile, [file EXCEPT !.state = "corrupt"]} : file' = f
    /\ last' = [NoLast EXCEPT !.op = "damage"]
    /\ UNCHANGED <<db, concVars, mergeVars, detectVars, pureVars, req, serveVars>>

NoSnap == [embeddings |-> <<>>, image_paths |-> <<>>]

ParkedConc ==
    /\ cdb = <<EmptyIndex, EmptyIndex>>
    /\ cfile = MissingFile
    /\ pc = <<"idle", "idle">>
    /\ tpath = <<None, None>>
    /\ tret = <<None, None>>
    /\ towner = <<1, 1>>
    /\ tsnap = <<NoSnap, NoSnap>>

ParkedIndex ==
    /\ db = EmptyIndex
    /\ file = MissingFile
    /\ last = NoLast

ParkedDetect ==
    /\ ocr_cache = <<>>
    /\ det = <<>>

ParkedPure ==
    /\ args = <<>>
    /\ result = <<>>

ParkedRequest == req = <<>>

ParkedMerge ==
    /\ regs = <<>>
    /\ merged = <<>>

ParkedServe ==
    /\ now = 0
    /\ disk = <<>>
    /\ handler = <<>>
    /\ constructed = <<>>
    /\ hashes = {}

Init ==
    /\ file \in {MissingFile, CorruptFile}
    /\ db = Load(file)
    /\ last = NoLast
    /\ ParkedConc
    /\ ParkedMerge
    /\ ParkedDetect
    /\ ParkedPure
    /\ ParkedRequest
    /\ ParkedServe

Next ==
    \/ \E p \in Paths, ok \in BOOLEAN, outcome \in SaveOutcomes :
           AddImage(p, ok, outcome)
    \/ \E p \in Paths, t \in Thresholds, ok \in BOOLEAN : Search(p, t, ok)
    \/ Open
    \/ DamageFile

Spec == Init /\ [][Next]_vars

\* the index under add_image and search_top_k, k up to the size of the index
NextTopK ==
    \/ \E p \in Paths, ok \in BOOLEAN, outcome \in SaveOutcomes :
           AddImage(p, ok, outcome)
    \/ \E p \in Paths, k \in 0..MaxIdx, t \in Thresholds, ok \in BOOLEAN :
           SearchTopK(p, k, t, ok)

SpecTopK == Init /\ [][NextTopK]_vars

----------------------------------------------------------------------------
(* Two concurrent add_image calls, statement by statement.  The calls run in   *)
(* two threads on one ImageVectorDB object, or in two requests that each built *)
(* their own object on the same backing file (bot/routes.py builds one per     *)
(* request).  add_image takes no lock.                                         *)

Threads == {1, 2}

\* both objects were built from the same file before the calls start
InitConc ==
    /\ cfile \in {MissingFile,
                  [state |-> "ok", embeddings |-> <<Embedding("a")>>,
                   image_paths |-> <<"a">>]}
    /\ cdb = <<Load(cfile), Load(cfile)>>
    /\ towner \in {<<1, 1>>, <<1, 2>>}
    /\ pc = <<"idle", "idle">>
    /\ tpath = <<None, None>>
    /\ tret = <<None, None>>
    /\ tsnap = <<NoSnap, NoSnap>>
    /\ ParkedIndex
    /\ ParkedMerge
    /\ ParkedDetect
    /\ ParkedPure
    /\ ParkedRequest
    /\ ParkedServe

Mine(t) == cdb[towner[t]]

\* add_image(p) is called
Call(t, p) ==
    /\ pc[t] = "idle"
    /\ pc' = [pc EXCEPT ![t] = "check"]
    /\ tpath' = [tpath EXCEPT ![t] = p]
    /\ UNCHANGED <<cdb, cfile, tret, towner, tsnap, idxVars, mergeVars, detectVars, pureVars, req, serveVars>>

\* if str(image_path) in self.image_paths: return True
CheckPresent(t) ==
    /\ pc[t] = "check"
    /\ IF InSeq(tpath[t], Mine(t).image_paths)
       THEN /\ pc' = [pc EXCEPT ![t] = "done"]
            /\ tret' = [tret EXCEPT ![t] = "True"]
       ELSE /\ pc' = [pc EXCEPT ![t] = "embed"]
            /\ tret' = tret
    /\ UNCHANGED <<cdb, cfile, tpath, towner, tsnap, idxVars, mergeVars, detectVars, pureVars, req, serveVars>>

\* embedding = self.get_image_embedding(image_path), or the except branch
Embed(t, ok) ==
    /\ pc[t] = "embed"
    /\ IF ok
       THEN /\ pc' = [pc EXCEPT ![t] = "append_embedding"]
            /\ tret' = tret
       ELSE /\ pc' = [pc EXCEPT ![t] = "done"]
            /\ tret' = [tret EXCEPT ![t] = "False"]
    /\ UNCHANGED <<cdb, cfile, tpath, towner, tsnap, idxVars, mergeVars, detectVars, pureVars, req, serveVars>>

\* self.embeddings.append(embedding)
AppendEmbedding(t) ==
    /\ pc[t] = "append_embedding"
    /\ cdb' = [cdb EXCEPT ![towner[t]].embeddings =
                              Append(@, Embedding(tpath[t]))]
    /\ pc' = [pc EXCEPT ![t] = "append_path"]
    /\ UNCHANGED <<cfile, tpath, tret, towner, tsnap, idxVars, mergeVars, detectVars, pureVars, req, serveVars>>

\* self.image_paths.append(str(image_path))
AppendPath(t) ==
    /\ pc[t] = "append_path"
    /\ cdb' = [cdb EXCEPT ![towner[t]].image_paths = Append(@, tpath[t])]
    /\ pc' = [pc EXCEPT ![t] = "save_embeddings"]
    /\ UNCHANGED <<cfile, tpath, tret, towner, tsnap, idxVars, mergeVars, detectVars, pureVars, req, serveVars>>

\* _save: embeddings=np.array(self.embeddings)
SaveReadEmbeddings(t) ==
    /\ pc[t] = "save_embeddings"
    /\ tsnap' = [tsnap EXCEPT ![t].embeddings = Mine(t).embeddings]
    /\ pc' = [pc EXCEPT ![t] = "save_paths"]
    /\ UNCHANGED <<cdb, cfile, tpath, tret, towner, idxVars, mergeVars, detectVars, pureVars, req, serveVars>>

\* _save: image_paths=np.array(self.image_paths)
SaveReadPaths(t) ==
    /\ pc[t] = "save_paths"
    /\ tsnap' = [tsnap EXCEPT ![t].image_paths = Mine(t).image_paths]
    /\ pc' = [pc EXCEPT ![t] = "write_begin"]
    /\ UNCHANGED <<cdb, cfile, tpath, tret, towner, idxVars, mergeVars, detectVars, pureVars, req, serveVars>>

\* _save: np.savez opens the file for writing, which empties it
WriteBegin(t) ==
    /\ pc[t] = "write_begin"
    /\ cfile' = CorruptFile
    /\ pc' = [pc EXCEPT ![t] = "write_end"]
    /\ UNCHANGED <<cdb, tpath, tret, towner, tsnap, idxVars, mergeVars, detectVars, pureVars, req, serveVars>>

\* _save: np.savez has written its arrays; return True
WriteEnd(t) ==
    /\ pc[t] = "write_end"
    /\ cfile' = [state |-> "ok", embeddings |-> tsnap[t].embeddings,
                 image_paths |-> tsnap[t].image_paths]
    /\ pc' = [pc EXCEPT ![t] = "done"]
    /\ tret' = [tret EXCEPT ![t] = "True"]
    /\ UNCHANGED <<cdb, tpath, towner, tsnap, idxVars, mergeVars, detectVars, pureVars, req, serveVars>>

\* threshold=0.8, the default of search
SearchThreshold == (8 * One) \div 10

\* search(p) by a thread on its object, while the other thread may be inside
\* add_image: np.stack(self.embeddings), argmax, then self.image_paths[idx],
\* which raises IndexError for a vector whose path is not appended yet
ConcSearch(t, p) ==
    /\ pc[t] = "idle"
    /\ LET sims == Similarities(Mine(t), Embedding(p))
           idx == ArgMax(sims)
       IN  tret' = [tret EXCEPT ![t] =
                       IF Mine(t).embeddings = <<>> THEN None
                       ELSE IF sims[idx] < SearchThreshold THEN None
                       ELSE IF idx > Len(Mine(t).image_paths) THEN "IndexError"
                       ELSE Mine(t).image_paths[idx]]
    /\ pc' = [pc EXCEPT ![t] = "searched"]
    /\ tpath' = [tpath EXCEPT ![t] = p]
    /\ UNCHANGED <<cdb, cfile, towner, tsnap, idxVars, mergeVars, detectVars, pureVars, req, serveVars>>

NextConc ==
    \E t \in Threads :
        \/ \E p \in Paths : Call(t, p)
        \/ \E p \in Paths : ConcSearch(t, p)
        \/ CheckPresent(t)
        \/ \E ok \in BOOLEAN : Embed(t, ok)
        \/ AppendEmbedding(t)
        \/ AppendPath(t)
        \/ SaveReadEmbeddings(t)
        \/ SaveReadPaths(t)
        \/ WriteBegin(t)
        \/ WriteEnd(t)

SpecConc == InitConc /\ [][NextConc]_vars

\* C3: two concurrent add_image calls leave what some sequential order of
\* them leaves: no path is recorded twice, vectors and paths stay paired,
\* and every record a call added is in its object and in the backing file.
NoPathTwice(ix) ==
    \A i, j \in 1..Len(ix.image_paths) :
        i # j => ix.image_paths[i] # ix.image_paths[j]

ConcurrentAddsAreSerialized ==
    (\A t \in Threads : pc[t] = "done") =>
        /\ \A t \in Threads :
              /\ NoPathTwice(Mine(t))
              /\ Len(Mine(t).embeddings) = Len(Mine(t).image_paths)
              /\ tret[t] = "True" => InSeq(tpath[t], Mine(t).image_paths)
        /\ NoPathTwice(cfile)
        /\ Len(cfile.embeddings) = Len(cfile.image_paths)
        /\ \A t \in Threads :
              tret[t] = "True" => InSeq(tpath[t], cfile.image_paths)

\* C29 as claimed: in every state the vectors and the paths of an index
\* object, and of the backing file, have the same length, and a search that
\* runs while an add is under way never picks a vector that has no path.
ReaderSeesPairedLists ==
    /\ \A t \in Threads : Len(Mine(t).embeddings) = Len(Mine(t).image_paths)
    /\ Len(cfile.embeddings) = Len(cfile.image_paths)
    /\ \A t \in Threads : tret[t] # "IndexError"

----------------------------------------------------------------------------
(* The compositors *)

\* k of the compositor's search_top_k call
TopK == 5
\* "top_results[0][1] >= 0.8"
TemplateThreshold == (8 * One) \div 10
\* similarity_threshold of MemeService.smart_generate_meme, 0.4
SimilarityThreshold == (4 * One) \div 10

MaxRegions == 1
AIOutcomes == {"boxes", "empty", "raise"}
\* the render calls of a request: all succeed, the first one raises, or the
\* fallback raises as well
RenderOutcomes == {"ok", "first_fails", "all_fail"}
Cleaned == "cleaned"

\* a response: the image the captions were drawn on and what is reported
Rendered(base, from_template, similarity, branch) ==
    [status |-> "ok", base |-> base, from_template |-> from_template,
     similarity |-> similarity, branch |-> branch]
\* the request ended in the 500 answer
Failed(branch) ==
    [status |-> "error", base |-> None, from_template |-> FALSE,
     similarity |-> 0, branch |-> branch]

\* The decision of smart_generate_meme (bot/routes.py) from the search result
\* top, whether the matched file exists, the number of regions detect_text
\* found on the request image, the outcome of the AI suggester, and whether
\* the first render call (r1) and the fallback render call (r2) succeed.
SmartGenerateDecision(top, exists, nregions, ai, render) ==
    LET r1 == render = "ok"
        r2 == render # "all_fail"
        found == top # <<>> /\ top[1].score >= TemplateThreshold
        similar_path == IF found THEN top[1].path ELSE None
        similarity == IF found THEN top[1].score ELSE 0
        from_clean == IF r2 THEN Rendered(Cleaned, FALSE, 0, "from_clean")
                      ELSE Failed("from_clean")
        white_box == IF r2 THEN Rendered(similar_path, TRUE, similarity,
                                         "white_box_on_template")
                     ELSE Failed("white_box_on_template")
    IN  IF ~found \/ ~exists
        THEN \* "No template found in database."
             IF nregions > 0
             THEN IF r1 THEN Rendered(Cleaned, FALSE, 0, "regions_on_cleaned")
                  ELSE Failed("regions_on_cleaned")
             ELSE IF top # <<>>
             THEN \* the best match, "even if below 80% threshold"
                  IF ai = "raise" \/ ~r1 THEN from_clean
                  ELSE IF ai = "boxes"
                  THEN Rendered(top[1].path, TRUE, top[1].score,
                                "ai_on_best_match")
                  ELSE Rendered(top[1].path, TRUE, top[1].score,
                                "white_box_on_best_match")
             ELSE IF ai = "boxes" /\ r1
             THEN Rendered(Cleaned, FALSE, 0, "ai_on_cleaned")
             ELSE from_clean
        ELSE \* "Found template"
             IF nregions > 0
             THEN IF r1 THEN Rendered(similar_path, TRUE, similarity,
                                      "regions_on_template")
                  ELSE Failed("regions_on_template")
             ELSE IF ai = "boxes"
             THEN IF r1 THEN Rendered(similar_path, TRUE, similarity,
                                      "ai_on_template")
                  ELSE white_box
             ELSE IF ai = "empty"
             THEN IF r1 THEN Rendered(similar_path, TRUE, similarity,
                                      "white_box_on_template")
                  ELSE white_box
             ELSE white_box

\* smart_generate_meme of bot/routes.py for the request image p, whose cleaned
\* copy embeds as Embedding(p): a new ImageVectorDB per request, only searched
SmartGenerate(p, ok, exists, nregions, ai, render) ==
    LET ix == Load(file)
    IN  /\ \E top \in SearchTopKResults(ix, Embedding(p), TopK, 0, ~ok) :
              LET d == SmartGenerateDecision(top, exists, nregions, ai, render)
              IN  last' = [NoLast EXCEPT
                             !.op = "smart_generate", !.path = p,
                             !.status = d.status, !.base = d.base,
                             !.from_template = Str(d.from_template),
                             !.similarity_score =
                                 IF d.from_template THEN d.similarity ELSE 0,
                             !.branch = d.branch]
        /\ UNCHANGED <<db, file, concVars, mergeVars, detectVars, pureVars, req, serveVars>>

\* MemeService.smart_generate_meme(p, ...) with vector_db left None, so on a
\* new ImageVectorDB: ok is whether the embedding of p can be extracted,
\* render whether the meme is drawn
ServiceSmartGenerate(p, ok, outcome, render) ==
    LET ix == Load(file)
        raises == ix.embeddings # <<>> /\ ~ok
        r == SearchResult(ix, Embedding(p), SimilarityThreshold)
        adds == r.path = None \/ r.path # p
        a == AddImageResult(ix, file, p, ok, outcome)
        done == ~raises /\ render
    IN  /\ Len(ix.image_paths) < MaxIdx \/ ~done \/ ~adds \/ a.branch # "added"
        /\ last' = [NoLast EXCEPT
                      !.op = "service_smart_generate", !.path = p,
                      !.status = IF done THEN "ok" ELSE "error",
                      !.ret = IF raises THEN "raise" ELSE r.path,
                      !.base = IF ~done THEN None
                               ELSE IF r.path # None THEN r.path ELSE Cleaned,
                      !.from_template = Str(done /\ r.path # None),
                      !.branch = IF raises THEN "embed_failed"
                                 ELSE IF ~render THEN "render_failed"
                                 ELSE IF ~adds THEN "not_added"
                                 ELSE a.branch,
                      !.saved = done /\ adds /\ a.saved]
        /\ file' = IF done /\ adds THEN a.file ELSE file
        /\ UNCHANGED <<db, concVars, mergeVars, detectVars, pureVars, req, serveVars>>

NextCompose ==
    \/ \E p \in RequestPaths, ok, exists \in BOOLEAN, n \in 0..MaxRegions,
          ai \in AIOutcomes, render \in RenderOutcomes :
           SmartGenerate(p, ok, exists, n, ai, render)
    \/ \E p \in RequestPaths, ok, render \in BOOLEAN, outcome \in SaveOutcomes :
           ServiceSmartGenerate(p, ok, outcome, render)

SpecCompose == Init /\ [][NextCompose]_vars

\* C1: a request whose best index match is below 0.8 (or that finds no match
\* at all) is handled as NoTemplate: the captions are drawn on the cleaned
\* request image and the response reports from_template = false.
BelowThresholdIsNoTemplate ==
    (last.op = "smart_generate" /\ last.status = "ok"
        /\ \A i \in 1..Len(Load(file).embeddings) :
               Dot(Load(file).embeddings[i], Embedding(last.path))
                   < TemplateThreshold)
    => (last.from_template = "False" /\ last.base = Cleaned)

\* C2: after a compositor has produced its output the request image is in
\* the index; the request never shrinks the index and grows it by one when
\* the request image is new to it.
RequestImageIsIndexed ==
    [][(last'.op \in {"smart_generate", "service_smart_generate"}
          /\ last'.status = "ok")
       => LET before == Load(file)
              after == Load(file')
          IN  /\ InSeq(last'.path, after.image_paths)
              /\ Len(after.image_paths) >= Len(before.image_paths)
              /\ ~InSeq(last'.path, before.image_paths) =>
                     Len(after.image_paths) = Len(before.image_paths) + 1]_vars

----------------------------------------------------------------------------
(* Region merging of the text detector *)

\* merge_threshold of merge_nearby_text_regions
MergeThreshold == 50

MaxRegs == 3

Min(S) == CHOOSE x \in S : \A y \in S : x <= y
Max(S) == CHOOSE x \in S : \A y \in S : x >= y

\* a bounding box is a list of four [x, y] points
XMin(bbox) == Min({bbox[i][1] : i \in 1..Len(bbox)})
XMax(bbox) == Max({bbox[i][1] : i \in 1..Len(bbox)})
YMin(bbox) == Min({bbox[i][2] : i \in 1..Len(bbox)})
YMax(bbox) == Max({bbox[i][2] : i \in 1..Len(bbox)})

\* [[x_min, y_min], [x_max, y_min], [x_max, y_max], [x_min, y_max]]
Box(x_min, y_min, x_max, y_max) ==
    <<<<x_min, y_min>>, <<x_max, y_min>>, <<x_max, y_max>>, <<x_min, y_max>>>>

\* a detection (bbox, text, confidence): the text as its list of words, the
\* confidence in thousandths
Region(bbox, text, conf) == [bbox |-> bbox, text |-> text, conf |-> conf]

\* the detections the merge is tried on: a wide headline, a short word under
\* its left end, a word further down under its right end, a slanted line far
\* below, and a word far to the right of the headline
Detections ==
    {Region(Box(0, 0, 100, 10), <<"TOP">>, 900),
     Region(Box(0, 20, 10, 30), <<"OF">>, 600),
     Region(Box(80, 60, 100, 70), <<"THE">>, 900),
     Region(<<<<0, 200>>, <<100, 202>>, <<100, 212>>, <<0, 210>>>>,
            <<"BOTTOM">>, 600),
     Region(Box(200, 0, 220, 10), <<"SIDE">>, 900)}

\* the test of the loop: prev is current_group[-1], cur is sorted_results[i]
ShouldMerge(prev, cur) ==
    LET vertical_distance == Max({0, YMin(cur.bbox) - YMax(prev.bbox)})
        horizontal_overlap == ~(\/ XMax(cur.bbox) < XMin(prev.bbox)
                                \/ XMax(prev.bbox) < XMin(cur.bbox))
        horizontal_distance == Min({Abs(XMin(cur.bbox) - XMax(prev.bbox)),
                                    Abs(XMin(prev.bbox) - XMax(cur.bbox))})
    IN  \/ vertical_distance <= MergeThreshold /\ horizontal_overlap
        \/ /\ 2 * vertical_distance <= MergeThreshold
           /\ horizontal_distance <= MergeThreshold

RECURSIVE JoinTexts(_)
JoinTexts(group) ==
    IF group = <<>> THEN <<>> ELSE Head(group).text \o JoinTexts(Tail(group))

RECURSIVE SumConf(_)
SumConf(group) ==
    IF group = <<>> THEN 0 ELSE Head(group).conf + SumConf(Tail(group))

\* a group represented by its first detection alone
MergeTextGroupFirstOnly(group) == group[1]

\* MemeService._merge_text_group
MergeTextGroup(group) ==
    IF Len(group) = 1 THEN group[1]
    ELSE LET boxes == {group[i].bbox : i \in 1..Len(group)}
         IN  Region(Box(Min({XMin(b) : b \in boxes}), Min({YMin(b) : b \in boxes}),
                        Max({XMax(b) : b \in boxes}), Max({YMax(b) : b \in boxes})),
                    JoinTexts(group),
                    SumConf(group) \div Len(group))

\* sorted(text_results, key=lambda x: min(point[1] for point in x[0])), stable
RECURSIVE InsertByTop(_, _)
InsertByTop(s, r) ==
    IF s = <<>> THEN <<r>>
    ELSE IF YMin(Head(s).bbox) <= YMin(r.bbox)
    THEN <<Head(s)>> \o InsertByTop(Tail(s), r)
    ELSE <<r>> \o s

RECURSIVE SortByTop(_)
SortByTop(s) ==
    IF s = <<>> THEN <<>>
    ELSE InsertByTop(SortByTop(SubSeq(s, 1, Len(s) - 1)), s[Len(s)])

\* a loop that forgets the last group
RECURSIVE MergeLoopDropsLast(_, _, _, _)
MergeLoopDropsLast(sorted, i, current_group, merged_regions) ==
    IF i > Len(sorted)
    THEN merged_regions
    ELSE IF ShouldMerge(current_group[Len(current_group)], sorted[i])
    THEN MergeLoopDropsLast(sorted, i + 1, Append(current_group, sorted[i]),
                            merged_regions)
    ELSE MergeLoopDropsLast(sorted, i + 1, <<sorted[i]>>,
                            Append(merged_regions, MergeTextGroup(current_group)))

\* the loop of merge_nearby_text_regions from index i on
RECURSIVE MergeLoop(_, _, _, _)
MergeLoop(sorted, i, current_group, merged_regions) ==
    IF i > Len(sorted)
    THEN Append(merged_regions, MergeTextGroup(current_group))
    ELSE IF ShouldMerge(current_group[Len(current_group)], sorted[i])
    THEN MergeLoop(sorted, i + 1, Append(current_group, sorted[i]),
                   merged_regions)
    ELSE MergeLoop(sorted, i + 1, <<sorted[i]>>,
                   Append(merged_regions, MergeTextGroup(current_group)))

\* MemeService.merge_nearby_text_regions
MergeNearbyTextRegions(text_results) ==
    IF text_results = <<>> THEN text_results
    ELSE LET sorted == SortByTop(text_results)
         IN  MergeLoop(sorted, 2, <<sorted[1]>>, <<>>)

InitMerge ==
    /\ regs \in UNION {[1..n -> Detections] : n \in 0..MaxRegs}
    /\ merged = <<>>
    /\ ParkedIndex
    /\ ParkedConc
    /\ ParkedDetect
    /\ ParkedPure
    /\ ParkedRequest
    /\ ParkedServe

\* merge_nearby_text_regions applied to the detections, then to its own result
MergePass ==
    /\ Len(merged) < 2
    /\ merged' = Append(merged,
                        MergeNearbyTextRegions(IF merged = <<>> THEN regs
                                               ELSE merged[Len(merged)]))
    /\ UNCHANGED <<regs, idxVars, concVars, detectVars, pureVars, req, serveVars>>

NextMerge == MergePass

SpecMerge == InitMerge /\ [][NextMerge]_vars

\* no region of the list passes the merge test with the one above it
NoProximityMatch(list) ==
    LET sorted == SortByTop(list)
    IN  \A i \in 1..(Len(sorted) - 1) : ~ShouldMerge(sorted[i], sorted[i + 1])

\* C10 as claimed: merging the result of a merge changes nothing.
MergeIsIdempotent ==
    Len(merged) = 2 => merged[2] = merged[1]

\* C10 as amended: merging the result of a merge changes nothing when no two
\* neighbouring regions of that result pass the merge test.
MergeIsIdempotentWithoutMatches ==
    (Len(merged) = 2 /\ NoProximityMatch(merged[1])) => merged[2] = merged[1]

\* a first pass that merged two detections and left two regions apart
MergedTwiceSeen ==
    /\ Len(merged) = 2
    /\ NoProximityMatch(merged[1])
    /\ Len(merged[1]) = 2
    /\ Len(regs) = 3
    /\ merged[2] = merged[1]

\* the box enclosing the polygons of a cluster
EnclosingBox(group) ==
    LET boxes == {group[i].bbox : i \in 1..Len(group)}
    IN  Box(Min({XMin(b) : b \in boxes}), Min({YMin(b) : b \in boxes}),
            Max({XMax(b) : b \in boxes}), Max({YMax(b) : b \in boxes}))

\* the merge test of a detection against the whole current cluster: its
\* largest y and its x-range over all members
ClusterShouldMerge(group, cur) ==
    ShouldMerge(Region(EnclosingBox(group), <<>>, 0), cur)

\* the walk over the sorted detections with the test against the cluster
RECURSIVE ClusterWalk(_, _, _, _)
ClusterWalk(sorted, i, current_group, merged_regions) ==
    IF i > Len(sorted)
    THEN Append(merged_regions, MergeTextGroup(current_group))
    ELSE IF ClusterShouldMerge(current_group, sorted[i])
    THEN ClusterWalk(sorted, i + 1, Append(current_group, sorted[i]),
                     merged_regions)
    ELSE ClusterWalk(sorted, i + 1, <<sorted[i]>>,
                     Append(merged_regions, MergeTextGroup(current_group)))

\* C23 as claimed: the merge adds the next sorted detection to the current
\* cluster exactly when it passes the proximity test against the cluster as
\* a whole (the largest y and the x-range of all its members).
MergeTestsAgainstCluster ==
    (Len(merged) >= 1 /\ regs # <<>>) =>
        merged[1] = ClusterWalk(SortByTop(regs), 2, <<SortByTop(regs)[1]>>, <<>>)

\* the sorted detections that an assignment f of detections to output
\* regions gives to region k
MembersOf(sorted, f, k) ==
    LET idx == [i \in 1..Len(sorted) |-> i]
        InK(i) == f[i] = k
        picked == SelectSeq(idx, InK)
    IN  [j \in 1..Len(picked) |-> sorted[picked[j]]]

\* out is made of consecutive clusters of the sorted detections: every
\* detection is in exactly one region, no region is empty, the regions are
\* in ascending order of top y and carry the joined texts of their members;
\* BoxOf gives the polygon a cluster must have
IsClustering(out, sorted, BoxOf(_)) ==
    \E f \in [1..Len(sorted) -> 1..Len(out)] :
        /\ \A i, j \in 1..Len(sorted) : i <= j => f[i] <= f[j]
        /\ \A k \in 1..Len(out) :
              /\ \E i \in 1..Len(sorted) : f[i] = k
              /\ out[k].text = JoinTexts(MembersOf(sorted, f, k))
              /\ out[k].bbox = BoxOf(MembersOf(sorted, f, k))
        /\ \A k \in 1..(Len(out) - 1) : YMin(out[k].bbox) <= YMin(out[k + 1].bbox)

\* the polygon of a cluster: that of the detection when it is alone
PolygonOfGroup(group) ==
    IF Len(group) = 1 THEN group[1].bbox ELSE EnclosingBox(group)

\* C24 as claimed: the output regions partition the detections, are in
\* ascending order of top y, carry the space-joined texts of their members in
\* sorted order, and each has the axis-aligned box enclosing its members.
MergePartitionsIntoBoxes ==
    Len(merged) >= 1 => IsClustering(merged[1], SortByTop(regs), EnclosingBox)

\* C24 as amended: the same, with the polygon of a cluster of one detection
\* being that detection's own polygon, whatever its shape.
MergePartitionsIntoClusters ==
    Len(merged) >= 1 => IsClustering(merged[1], SortByTop(regs), PolygonOfGroup)

\* three detections merged into a cluster of two and a slanted one kept as is
MergePartitionSeen ==
    /\ Len(merged) >= 1
    /\ Len(regs) = 3
    /\ Len(merged[1]) = 2
    /\ \E k \in 1..2 : Len(merged[1][k].text) = 2
    /\ \E k \in 1..2 : merged[1][k].bbox # EnclosingBox(<<merged[1][k]>>)

----------------------------------------------------------------------------
(* Text detection with the OCR cache *)

\* the contents (bytes) of the images detect_text is called on
ImageBytes == {"blank", "meme", "faint", "ghost"}

\* _get_image_hash: the md5 digest of the bytes (one digest per content, named
\* after it), None when the file cannot be read
ImageHash(bytes, readable) == IF readable THEN bytes ELSE None

\* image.shape of the decoded bytes: (height, width)
ShapeOf ==
    [blank |-> <<100, 100>>, meme |-> <<120, 100>>, faint |-> <<140, 100>>,
     ghost |-> <<100, 200>>]

\* ocr_reader.readtext: the raw detections of each image; "faint" carries a
\* watermark read with confidence 0.3, "ghost" one detection read with
\* confidence exactly 0.5
Readtext ==
    [blank |-> <<>>,
     meme  |-> <<Region(Box(0, 0, 100, 10), <<"TOP">>, 900),
                 Region(Box(0, 20, 10, 30), <<"OF">>, 600)>>,
     faint |-> <<Region(Box(0, 0, 100, 10), <<"TOP">>, 900),
                 Region(Box(0, 120, 60, 130), <<"WATERMARK">>, 300)>>,
     ghost |-> <<Region(Box(20, 40, 90, 60), <<"GHOST">>, 500)>>]

\* min_confidence of remove_text_and_inpaint, 0.5, in thousandths
MinConfidence == 500

\* an ocr_<hash>.pkl file: absent, complete, cut short by a writer that has
\* opened it for writing, or unreadable
NoCacheFile == [state |-> "absent", text_results |-> <<>>, image_shape |-> <<>>]
\* the None of _get_cached_ocr_result
NoCachedResult == [NoCacheFile EXCEPT !.state = None]

\* a cache entry that keeps the detections as they were before the merge
CacheDataUnmerged(merged_results, text_results, image_shape) ==
    [state |-> "ok", text_results |-> text_results, image_shape |-> image_shape]

\* cache_data = (merged_results, image.shape)
CacheData(merged_results, text_results, image_shape) ==
    [state |-> "ok", text_results |-> merged_results, image_shape |-> image_shape]

\* _get_cached_ocr_result: the unpickled tuple, None when the hash cannot be
\* taken, the file does not exist or pickle.load raises
GetCachedOcrResult(cache, bytes, readable) ==
    LET image_hash == ImageHash(bytes, readable)
    IN  IF image_hash = None THEN NoCachedResult
        ELSE IF cache[image_hash].state = "ok" THEN cache[image_hash]
        ELSE NoCachedResult

\* _cache_ocr_result: nothing without a hash; a dump that raises leaves the
\* file it has opened for writing cut short
CacheOcrResult(cache, bytes, readable, ocr_result, dumped) ==
    LET image_hash == ImageHash(bytes, readable)
    IN  IF image_hash = None THEN cache
        ELSE IF dumped THEN [cache EXCEPT ![image_hash] = ocr_result]
        ELSE [cache EXCEPT
                ![image_hash] = [NoCacheFile EXCEPT !.state = "partial"]]

\* lines 294-303 of detect_text: the detections with integer points, merged
OcrAndMerge(bytes) == MergeNearbyTextRegions(Readtext[bytes])

NoDet == [op |-> "none", image |-> None, source |-> None, ret |-> <<>>]

InitDetect ==
    /\ ocr_cache = [b \in ImageBytes |-> NoCacheFile]
    /\ det = NoDet
    /\ ParkedIndex
    /\ ParkedConc
    /\ ParkedMerge
    /\ ParkedPure
    /\ ParkedRequest
    /\ ParkedServe

\* detect_text on an image with the given bytes
DetectText(bytes, readable, dumped) ==
    LET cached_result == GetCachedOcrResult(ocr_cache, bytes, readable)
        merged_results == OcrAndMerge(bytes)
        cache_data == CacheData(merged_results, Readtext[bytes], ShapeOf[bytes])
    IN  /\ IF cached_result # NoCachedResult
           THEN /\ det' = [op |-> "detect", image |-> bytes, source |-> "hit",
                           ret |-> cached_result.text_results]
                /\ UNCHANGED ocr_cache
           ELSE /\ det' = [op |-> "detect", image |-> bytes, source |-> "miss",
                           ret |-> merged_results]
                /\ ocr_cache' = CacheOcrResult(ocr_cache, bytes, readable,
                                               cache_data, dumped)
        /\ UNCHANGED <<idxVars, concVars, mergeVars, pureVars, req, serveVars>>

\* another request on the same bytes opens the cache file for writing ...
WriterOpens(bytes) ==
    /\ ocr_cache' = [ocr_cache EXCEPT
                       ![bytes] = [NoCacheFile EXCEPT !.state = "partial"]]
    /\ det' = [NoDet EXCEPT !.op = "writer_opens", !.image = bytes]
    /\ UNCHANGED <<idxVars, concVars, mergeVars, pureVars, req, serveVars>>

\* ... and finishes its pickle.dump
WriterCloses(bytes) ==
    /\ ocr_cache[bytes].state = "partial"
    /\ ocr_cache' = [ocr_cache EXCEPT
                       ![bytes] = CacheData(OcrAndMerge(bytes), Readtext[bytes],
                                            ShapeOf[bytes])]
    /\ det' = [NoDet EXCEPT !.op = "writer_closes", !.image = bytes]
    /\ UNCHANGED <<idxVars, concVars, mergeVars, pureVars, req, serveVars>>

\* the cache file is deleted or made unreadable
DamageCache(bytes, state) ==
    /\ ocr_cache' = [ocr_cache EXCEPT
                       ![bytes] = [NoCacheFile EXCEPT !.state = state]]
    /\ det' = [NoDet EXCEPT !.op = "damage", !.image = bytes]
    /\ UNCHANGED <<idxVars, concVars, mergeVars, pureVars, req, serveVars>>

NextDetect ==
    \/ \E bytes \in ImageBytes, readable, dumped \in BOOLEAN :
          DetectText(bytes, readable, dumped)
    \/ \E bytes \in ImageBytes : WriterOpens(bytes)
    \/ \E bytes \in ImageBytes : WriterCloses(bytes)
    \/ \E bytes \in ImageBytes, state \in {"absent", "corrupt"} :
          DamageCache(bytes, state)

SpecDetect == InitDetect /\ [][NextDetect]_vars

\* the words of a detection appear, in order and adjacent, in a region's text
RECURSIVE HasWords(_, _)
HasWords(text, words) ==
    IF Len(text) < Len(words) THEN FALSE
    ELSE \/ SubSeq(text, 1, Len(words)) = words
         \/ HasWords(Tail(text), words)

\* the polygon of a detection lies within a region's box
Covers(outer, inner) ==
    /\ XMin(outer) <= XMin(inner) /\ XMax(inner) <= XMax(outer)
    /\ YMin(outer) <= YMin(inner) /\ YMax(inner) <= YMax(outer)

\* C11: no region returned by detect_text contains the text or the polygon
\* of a raw detection read with confidence 0.5 or lower.
DetectDropsLowConfidence ==
    det.op = "detect" =>
        \A i \in 1..Len(Readtext[det.image]), j \in 1..Len(det.ret) :
            LET d == Readtext[det.image][i]
                r == det.ret[j]
            IN  d.conf <= MinConfidence =>
                    ~HasWords(r.text, d.text) /\ ~Covers(r.bbox, d.bbox)

\* C12: a detect_text call answered from the cache returns the region list
\* that OCR and merging give for the same image bytes.
CacheHitEqualsMiss ==
    (det.op = "detect" /\ det.source = "hit") => det.ret = OcrAndMerge(det.image)

\* a hit on an image whose detections the miss had merged, on a cache file
\* that was cut short or unreadable in between
CacheHitSeen ==
    /\ det.op = "detect"
    /\ det.source = "hit"
    /\ det.image = "meme"
    /\ Len(det.ret) = 1
    /\ \E b \in ImageBytes : ocr_cache[b].state \in {"partial", "corrupt"}

----------------------------------------------------------------------------
(* Floating-point arithmetic of the font fit and the box transform *)

\* bits of the significand: a float is m * 2^e with m = 0 or
\* 2^(MantissaBits-1) <= |m| < 2^MantissaBits (a double has 53 bits)
MantissaBits == 8

RECURSIVE Pow2(_)
Pow2(n) == IF n = 0 THEN 1 ELSE 2 * Pow2(n - 1)

\* num / den * 2^e, for num > 0 and den > 0, rounded to the nearest float,
\* ties to the even significand: the fraction is doubled or halved until its
\* integer part has MantissaBits bits
RECURSIVE RoundShifted(_, _, _)
RoundShifted(num, den, e) ==
    IF num < den * Pow2(MantissaBits - 1) THEN RoundShifted(2 * num, den, e - 1)
    ELSE IF num >= den * Pow2(MantissaBits) THEN RoundShifted(num, 2 * den, e + 1)
    ELSE LET q == num \div den
             r == num % den
             up == 2 * r > den \/ (2 * r = den /\ q % 2 = 1)
             m == IF up THEN q + 1 ELSE q
         IN  IF m = Pow2(MantissaBits)
             THEN [m |-> Pow2(MantissaBits - 1), e |-> e + 1]
             ELSE [m |-> m, e |-> e]

\* the float nearest to num / den * 2^e, for num >= 0 and den > 0
RoundRatio(num, den, e) ==
    CHOOSE f \in {IF n = 0 THEN [m |-> 0, e |-> 0] ELSE RoundShifted(n, d, x) :
                     n \in {num}, d \in {den}, x \in {e}} : TRUE

FNeg(a) == [m |-> -a.m, e |-> a.e]

\* the float nearest to the fraction num / den, den > 0
Float(num, den) ==
    IF num < 0 THEN FNeg(RoundRatio(-num, den, 0)) ELSE RoundRatio(num, den, 0)

FMul(a, b) ==
    LET p == a.m * b.m
    IN  IF p < 0 THEN FNeg(RoundRatio(-p, 1, a.e + b.e))
        ELSE RoundRatio(p, 1, a.e + b.e)

\* a / b for b # 0
FDiv(a, b) ==
    LET neg == (a.m < 0) # (b.m < 0)
        r == RoundRatio(Abs(a.m), Abs(b.m), a.e - b.e)
    IN  IF neg THEN FNeg(r) ELSE r

FSub(a, b) ==
    LET e == IF a.e < b.e THEN a.e ELSE b.e
        d == a.m * Pow2(a.e - e) - b.m * Pow2(b.e - e)
    IN  IF d < 0 THEN FNeg(RoundRatio(-d, 1, e)) ELSE RoundRatio(d, 1, e)

\* int(a): truncation towards zero
Trunc(a) ==
    LET n == IF a.e >= 0 THEN Abs(a.m) * Pow2(a.e)
             ELSE Abs(a.m) \div Pow2(-a.e)
    IN  IF a.m < 0 THEN -n ELSE n

\* a == n for a float a and an integer n
FloatEqualsInt(a, n) ==
    IF a.e >= 0 THEN a.m * Pow2(a.e) = n ELSE a.m = n * Pow2(-a.e)

\* |a - n| <= |n| * 2^(2 - MantissaBits): a is n up to two roundings
FloatNearInt(a, n) ==
    LET k == MantissaBits - 2
    IN  IF a.e >= 0 THEN Abs(a.m * Pow2(a.e) - n) * Pow2(k) <= Abs(n)
        ELSE Abs(a.m - n * Pow2(-a.e)) * Pow2(k) <= Abs(n) * Pow2(-a.e)

----------------------------------------------------------------------------
(* Font fit *)

\* a fit that applies no bounds
CalculateOptimalFontSizeUnbounded(text_length, image_width, max_height, default_size, min_size, max_size) ==
    IF text_length = 0 THEN default_size
    ELSE Trunc(FDiv(FMul(image_width, Float(8, 10)),
                    FMul(Float(6, 10), Float(text_length, 1))))

\* MemeService.calculate_optimal_font_size; the text is given by its length,
\* image_width is a float
CalculateOptimalFontSize(text_length, image_width, max_height, default_size, min_size, max_size) ==
    IF text_length = 0 THEN default_size
    ELSE LET char_width_factor == Float(6, 10)
             target_width == FMul(image_width, Float(8, 10))
             estimated_size ==
                 Trunc(FDiv(target_width,
                            FMul(char_width_factor, Float(text_length, 1))))
             size == Max({min_size, Min({estimated_size, max_size})})
             tuned ==
                 IF text_length <= 5
                 THEN Min({Trunc(FMul(Float(size, 1), Float(12, 10))), max_size})
                 ELSE IF text_length <= 10
                 THEN Min({Trunc(FMul(Float(size, 1), Float(11, 10))), max_size})
                 ELSE IF text_length >= 50
                 THEN Max({Trunc(FMul(Float(size, 1), Float(9, 10))), min_size})
                 ELSE size
         IN  Max({min_size, Min({tuned, max_size})})

\* a fit without the correction by text length
CalculateOptimalFontSizeNoBoost(text_length, image_width, max_height, default_size, min_size, max_size) ==
    IF text_length = 0 THEN default_size
    ELSE Max({min_size,
              Min({Trunc(FDiv(FMul(image_width, Float(8, 10)),
                              FMul(Float(6, 10), Float(text_length, 1)))),
                   max_size})})

\* calculate_optimal_font_size of scripts/text_detect.py
TextDetectCalculateOptimalFontSize(text_length, image_width, max_height, default_size, min_size, max_size) ==
    IF text_length = 0 THEN default_size
    ELSE LET char_width_factor == Float(6, 10)
             target_width == FMul(image_width, Float(8, 10))
             estimated_size ==
                 Trunc(FDiv(target_width,
                            FMul(char_width_factor, Float(text_length, 1))))
             size == Max({min_size, Min({estimated_size, max_size})})
             tuned ==
                 IF text_length <= 5
                 THEN Min({Trunc(FMul(Float(size, 1), Float(12, 10))), max_size})
                 ELSE IF text_length <= 10
                 THEN Min({Trunc(FMul(Float(size, 1), Float(11, 10))), max_size})
                 ELSE IF text_length >= 50
                 THEN Max({Trunc(FMul(Float(size, 1), Float(9, 10))), min_size})
                 ELSE size
         IN  Max({min_size, Min({tuned, max_size})})

\* the two implementations of the repository
Implementations == {"meme_service", "text_detect"}
MaxHeights == {0, 50}

TextLengths == {0, 1, 5, 6, 10, 11, 49, 50, 200}
ImageWidths == {0, 1, 7, 30, 100, 250}
DefaultSizes == {40, 7}
SizeBounds == {<<20, 80>>, <<10, 10>>, <<1, 200>>, <<0, 0>>, <<-10, 5>>}

NoResult == [done |-> FALSE, value |-> <<>>]

InitFit ==
    /\ args \in [text_length : TextLengths, image_width : ImageWidths,
                 max_height : MaxHeights, default_size : DefaultSizes,
                 bounds : SizeBounds, impl : Implementations]
    /\ result = NoResult
    /\ ParkedIndex
    /\ ParkedConc
    /\ ParkedMerge
    /\ ParkedDetect
    /\ ParkedRequest
    /\ ParkedServe

\* one call of calculate_optimal_font_size, of either implementation, with an
\* integer width
Fit ==
    /\ ~result.done
    /\ result' = [done |-> TRUE,
                  value |-> IF args.impl = "meme_service"
                            THEN CalculateOptimalFontSize(
                                     args.text_length, Float(args.image_width, 1),
                                     args.max_height, args.default_size,
                                     args.bounds[1], args.bounds[2])
                            ELSE TextDetectCalculateOptimalFontSize(
                                     args.text_length, Float(args.image_width, 1),
                                     args.max_height, args.default_size,
                                     args.bounds[1], args.bounds[2])]
    /\ UNCHANGED <<args, idxVars, concVars, mergeVars, detectVars, req, serveVars>>

NextFit == Fit

SpecFit == InitFit /\ [][NextFit]_vars

\* C13: the font fit returns the default size for empty text and a size
\* within [min_size, max_size] for every non-empty text.
FontSizeWithinBounds ==
    result.done =>
        IF args.text_length = 0 THEN result.value = args.default_size
        ELSE args.bounds[1] <= result.value /\ result.value <= args.bounds[2]

\* a fit of a short text whose estimate lies above max_size, and of a long
\* one whose estimate lies below min_size
FontSizeClampedSeen ==
    /\ result.done
    /\ args.bounds = <<20, 80>>
    /\ \/ args.text_length = 1 /\ args.image_width = 250 /\ result.value = 80
       \/ args.text_length = 200 /\ args.image_width = 30 /\ result.value = 20

\* int() of the fraction a / b, b > 0
TruncDiv(a, b) == IF a < 0 THEN -((-a) \div b) ELSE a \div b

\* the fit in exact arithmetic: truncate(width * 0.8 / (0.6 * len)), clamped,
\* corrected by the length of the text, truncated and clamped again
ReferenceFontSize(text_length, image_width, min_size, max_size) ==
    LET estimated_size == TruncDiv(8 * image_width, 6 * text_length)
        size == Max({min_size, Min({estimated_size, max_size})})
        tuned == IF text_length <= 5 THEN TruncDiv(12 * size, 10)
                 ELSE IF text_length <= 10 THEN TruncDiv(11 * size, 10)
                 ELSE IF text_length >= 50 THEN TruncDiv(9 * size, 10)
                 ELSE size
    IN  Max({min_size, Min({tuned, max_size})})

\* the reference value for the arguments of the call
ReferenceOfArgs ==
    ReferenceFontSize(args.text_length, args.image_width, args.bounds[1],
                      args.bounds[2])

\* the result is that of both implementations for every target height
FitIgnoresHeightAndImplementation ==
    \A h \in MaxHeights :
        /\ result.value =
               CalculateOptimalFontSize(args.text_length, Float(args.image_width, 1),
                                        h, args.default_size, args.bounds[1],
                                        args.bounds[2])
        /\ result.value =
               TextDetectCalculateOptimalFontSize(
                   args.text_length, Float(args.image_width, 1), h,
                   args.default_size, args.bounds[1], args.bounds[2])

----------------------------------------------------------------------------
(* Box transform *)

MaxBoxes == 2

\* "for bbox, text, confidence in ...": an entry with a fourth component (the
\* font size of a suggested box) cannot be unpacked
Unpackable(boxes) ==
    \A i \in 1..Len(boxes) : DOMAIN boxes[i] = {"bbox", "text", "conf"}

RaisedBoxes == [raised |-> TRUE, boxes |-> <<>>]
ReturnedBoxes(scaled) == [raised |-> FALSE, boxes |-> scaled]

\* MemeService.normalize_bounding_boxes: integer points to relative floats;
\* source_image_shape is (height, width)
NormalizeBoundingBoxes(bounding_boxes, source_image_shape) ==
    LET source_height == source_image_shape[1]
        source_width == source_image_shape[2]
    IN  IF ~Unpackable(bounding_boxes) THEN RaisedBoxes
        ELSE ReturnedBoxes(
               [i \in 1..Len(bounding_boxes) |->
                  [bounding_boxes[i] EXCEPT
                     !.bbox = [j \in 1..Len(@) |->
                                 <<FDiv(Float(@[j][1], 1), Float(source_width, 1)),
                                   FDiv(Float(@[j][2], 1), Float(source_height, 1))>>]]])

\* a scaling that takes the shape as (width, height)
ScaleNormalizedBboxesSwapped(normalized_bboxes, target_image_shape) ==
    LET target_height == target_image_shape[2]
        target_width == target_image_shape[1]
    IN  IF ~Unpackable(normalized_bboxes) THEN RaisedBoxes
        ELSE ReturnedBoxes(
               [i \in 1..Len(normalized_bboxes) |->
                  [normalized_bboxes[i] EXCEPT
                     !.bbox = [j \in 1..Len(@) |->
                                 <<FMul(@[j][1], Float(target_width, 1)),
                                   FMul(@[j][2], Float(target_height, 1))>>]]])

\* MemeService.scale_normalized_bboxes_to_target: relative floats to floats in
\* the target image; target_image_shape is (height, width)
ScaleNormalizedBboxesToTarget(normalized_bboxes, target_image_shape) ==
    LET target_height == target_image_shape[1]
        target_width == target_image_shape[2]
    IN  IF ~Unpackable(normalized_bboxes) THEN RaisedBoxes
        ELSE ReturnedBoxes(
               [i \in 1..Len(normalized_bboxes) |->
                  [normalized_bboxes[i] EXCEPT
                     !.bbox = [j \in 1..Len(@) |->
                                 <<FMul(@[j][1], Float(target_width, 1)),
                                   FMul(@[j][2], Float(target_height, 1))>>]]])

\* the two calls of apply_text_to_template_with_bboxes, lines 1174 and 1177
MapBoxes(bounding_boxes, source_shape, target_shape) ==
    LET normalized == NormalizeBoundingBoxes(bounding_boxes, source_shape)
    IN  IF normalized.raised THEN RaisedBoxes
        ELSE ScaleNormalizedBboxesToTarget(normalized.boxes, target_shape)

\* image shapes (height, width)
Shapes == {<<49, 49>>, <<100, 100>>, <<3, 7>>, <<64, 128>>}

InitTransform ==
    /\ args \in [bounding_boxes : UNION {[1..n -> Detections] : n \in 0..MaxBoxes},
                 shape : Shapes]
    /\ result = NoResult
    /\ ParkedIndex
    /\ ParkedConc
    /\ ParkedMerge
    /\ ParkedDetect
    /\ ParkedRequest
    /\ ParkedServe

\* normalize_bounding_boxes, then scale_normalized_bboxes_to_target with the
\* same shape
RoundTrip ==
    /\ ~result.done
    /\ result' = [done |-> TRUE,
                  value |-> MapBoxes(args.bounding_boxes, args.shape, args.shape)]
    /\ UNCHANGED <<args, idxVars, concVars, mergeVars, detectVars, req, serveVars>>

NextTransform == RoundTrip

SpecTransform == InitTransform /\ [][NextTransform]_vars

\* the regions of the result, in number, order, text and confidence
SameRegionsApartFromBoxes(boxes, original) ==
    /\ Len(boxes) = Len(original)
    /\ \A i \in 1..Len(original) :
          /\ boxes[i].text = original[i].text
          /\ boxes[i].conf = original[i].conf
          /\ Len(boxes[i].bbox) = Len(original[i].bbox)

\* C14 as claimed: the round trip returns the original coordinates.
RoundTripIsIdentity ==
    result.done =>
        /\ ~result.value.raised
        /\ SameRegionsApartFromBoxes(result.value.boxes, args.bounding_boxes)
        /\ \A i \in 1..Len(args.bounding_boxes) :
              \A j \in 1..Len(args.bounding_boxes[i].bbox), c \in 1..2 :
                  FloatEqualsInt(result.value.boxes[i].bbox[j][c],
                                 args.bounding_boxes[i].bbox[j][c])

\* C14 as amended: the round trip returns the original coordinates up to the
\* rounding of the division and of the multiplication, and keeps the number,
\* order, text and confidence of the regions.
RoundTripIsNearIdentity ==
    result.done =>
        /\ ~result.value.raised
        /\ SameRegionsApartFromBoxes(result.value.boxes, args.bounding_boxes)
        /\ \A i \in 1..Len(args.bounding_boxes) :
              \A j \in 1..Len(args.bounding_boxes[i].bbox), c \in 1..2 :
                  FloatNearInt(result.value.boxes[i].bbox[j][c],
                               args.bounding_boxes[i].bbox[j][c])

\* a round trip of two regions in which a coordinate came back changed
RoundTripRoundedSeen ==
    /\ result.done
    /\ ~result.value.raised
    /\ Len(args.bounding_boxes) = 2
    /\ \E i \in 1..2, j \in 1..4, c \in 1..2 :
          /\ ~FloatEqualsInt(result.value.boxes[i].bbox[j][c],
                             args.bounding_boxes[i].bbox[j][c])
          /\ FloatNearInt(result.value.boxes[i].bbox[j][c],
                          args.bounding_boxes[i].bbox[j][c])

----------------------------------------------------------------------------
(* The removal mask of the text remover *)

\* padding = 2
Padding == 2

\* a padded box that is not clamped to the image
PaddedRectUnclamped(bbox, shape) ==
    <<XMin(bbox) - Padding, YMin(bbox) - Padding,
      XMax(bbox) + Padding, YMax(bbox) + Padding>>

\* the rectangle <<x_min, y_min, x_max, y_max>> drawn into the mask for a
\* region of an image of the given shape (height, width)
PaddedRect(bbox, shape) ==
    <<Max({0, XMin(bbox) - Padding}), Max({0, YMin(bbox) - Padding}),
      Min({shape[2], XMax(bbox) + Padding}), Min({shape[1], YMax(bbox) + Padding})>>

\* lines 349-376 of remove_text_and_inpaint: the rectangles of the mask, the
\* number of regions removed, and whether the output is a copy of the input
RemovalMask(text_results, shape, min_confidence) ==
    LET Removed(r) == r.conf > min_confidence
        removed == SelectSeq(text_results, Removed)
    IN  [rects |-> {PaddedRect(removed[i].bbox, shape) : i \in 1..Len(removed)},
         text_regions_removed |-> Len(removed),
         copied |-> Len(removed) = 0]

\* regions of a 100 x 100 image: along the top edge, inside, in the bottom
\* right corner, and one that the OCR engine reports from just left of the
\* image
MaskBoxes ==
    {Box(0, 0, 100, 10), Box(1, 20, 10, 30), Box(50, 95, 99, 100),
     Box(-1, 40, 30, 50)}
MaskConfidences == {300, 500, 900}
MaskMinConfidences == {MinConfidence, 0}
MaskShape == <<100, 100>>

InitMask ==
    /\ args \in [text_results :
                    UNION {[1..n -> {Region(b, <<"T">>, c) :
                                        b \in MaskBoxes, c \in MaskConfidences}] :
                              n \in 0..MaxBoxes},
                 min_confidence : MaskMinConfidences]
    /\ result = NoResult
    /\ ParkedIndex
    /\ ParkedConc
    /\ ParkedMerge
    /\ ParkedDetect
    /\ ParkedRequest
    /\ ParkedServe

\* the mask of one call of remove_text_and_inpaint
BuildMask ==
    /\ ~result.done
    /\ result' = [done |-> TRUE,
                  value |-> RemovalMask(args.text_results, MaskShape,
                                        args.min_confidence)]
    /\ UNCHANGED <<args, idxVars, concVars, mergeVars, detectVars, req, serveVars>>

NextMask == BuildMask

SpecMask == InitMask /\ [][NextMask]_vars

\* the rectangles of the mask are the padded, clamped boxes of the regions
\* that Qualifies selects, each within the image, and with no such region the
\* output is a copy of the input
MaskIsUnionOf(Qualifies(_)) ==
    LET regions == {args.text_results[i] : i \in 1..Len(args.text_results)}
        chosen == {r \in regions : Qualifies(r)}
    IN  /\ result.value.rects =
               {<<Max({0, XMin(r.bbox) - 2}), Max({0, YMin(r.bbox) - 2}),
                  Min({MaskShape[2], XMax(r.bbox) + 2}),
                  Min({MaskShape[1], YMax(r.bbox) + 2})>> : r \in chosen}
        /\ \A rect \in result.value.rects :
              /\ 0 <= rect[1] /\ rect[1] <= rect[3] /\ rect[3] <= MaskShape[2]
              /\ 0 <= rect[2] /\ rect[2] <= rect[4] /\ rect[4] <= MaskShape[1]
        /\ result.value.copied <=> chosen = {}

\* C25 as claimed: the mask is the union of the padded, clamped boxes of
\* exactly the regions whose confidence is not below the minimum, and with
\* no such region the cleaned image is a copy of the input.
MaskOfRegionsNotBelowMinimum ==
    result.done =>
        LET NotBelow(r) == r.conf >= args.min_confidence
        IN  MaskIsUnionOf(NotBelow)

\* C25 as amended: the mask is the union of the padded, clamped boxes of
\* exactly the regions whose confidence is above the minimum; a region whose
\* confidence equals the minimum is left in the image.
MaskOfRegionsAboveMinimum ==
    result.done =>
        LET Above(r) == r.conf > args.min_confidence
        IN  MaskIsUnionOf(Above)

\* a mask of one clamped box, built from two regions of which one has exactly
\* the minimum confidence
MaskSkipsRegionAtMinimumSeen ==
    /\ result.done
    /\ Len(args.text_results) = 2
    /\ \E i \in 1..2 : args.text_results[i].conf = args.min_confidence
    /\ Cardinality(result.value.rects) = 1
    /\ \E rect \in result.value.rects : rect[1] = 0 /\ rect[3] = MaskShape[2]
    /\ ~result.value.copied

----------------------------------------------------------------------------
(* One request of the route compositor, step by step *)

MaxCaptions == 2

\* the parts of the caption, split at "|", stripped, empty parts dropped
CaptionTexts == <<"HELLO", "SECOND", "THIRD">>
TextLength == [HELLO |-> 5, SECOND |-> 6, THIRD |-> 5]
TextParts(n) == SubSeq(CaptionTexts, 1, n)

\* the template the index returns and its shape (height, width)
TemplatePath == "a"
TemplateShape == <<200, 200>>

\* top_results of search_top_k(cleaned_image_path, k=5): nothing, a best
\* match below the template threshold, a best match above it
TopResults ==
    {<<>>, <<[path |-> TemplatePath, score |-> (6 * One) \div 10]>>,
     <<[path |-> TemplatePath, score |-> (95 * One) \div 100]>>}

\* font sizes the model suggests: that of the prompt's example, and the
\* largest the prompt allows for an image of the template's width,
\* min(55, max(15, int(width * 0.04)))
SuggestedFontSize == 25
SmallFontSize == 15
SuggestedFontSizes == {SuggestedFontSize, SmallFontSize}

\* what the vision model answers: the call or the parsing raises, or the
\* answer is a dictionary with a well-formed box under the keys text<i>, i
\* in keys
AIAnswers ==
    {[raises |-> TRUE, keys |-> {}, font_size |-> SuggestedFontSize]}
        \cup {[raises |-> FALSE, keys |-> K, font_size |-> f] :
                  K \in SUBSET (1..MaxCaptions), f \in SuggestedFontSizes}

\* the box the model suggests under the key text<i>
SuggestedBox(i) == Box(10, 20 * i, 190, 20 * i + 15)

RECURSIVE FormattedBoxes(_, _, _)
FormattedBoxes(text_parts, answer, i) ==
    IF i > Len(text_parts) THEN <<>>
    ELSE IF i \in answer.keys
    THEN <<[bbox |-> SuggestedBox(i), text |-> <<text_parts[i]>>, conf |-> 1000,
            font_size |-> answer.font_size]>>
             \o FormattedBoxes(text_parts, answer, i + 1)
    ELSE FormattedBoxes(text_parts, answer, i + 1)

\* MemeService.generate_bounding_boxes_with_openai on an image that can be
\* read (readable) with the model's answer: a key that is missing is skipped
GenerateBoundingBoxesWithOpenai(readable, text_parts, answer) ==
    IF text_parts = <<>> THEN ReturnedBoxes(<<>>)
    ELSE IF ~readable \/ answer.raises THEN RaisedBoxes
    ELSE ReturnedBoxes(FormattedBoxes(text_parts, answer, 1))

\* min and max of float coordinates
FLeq(a, b) == FSub(a, b).m <= 0
FMin(S) == CHOOSE x \in S : \A y \in S : FLeq(x, y)
FMax(S) == CHOOSE x \in S : \A y \in S : FLeq(y, x)

\* one caption drawn: lines 1190-1253 of apply_text_to_template_with_bboxes
DrawnAt(text_part, bbox_data, scaled) ==
    LET bbox_coords == bbox_data.bbox
        xs == {bbox_coords[j][1] : j \in 1..Len(bbox_coords)}
        ys == {bbox_coords[j][2] : j \in 1..Len(bbox_coords)}
        bbox_width == IF scaled THEN FSub(FMax(xs), FMin(xs))
                      ELSE Float(Max(xs) - Min(xs), 1)
        bbox_height == IF scaled THEN FSub(FMax(ys), FMin(ys))
                       ELSE Float(Max(ys) - Min(ys), 1)
        openai_font_size == IF "font_size" \in DOMAIN bbox_data
                            THEN bbox_data.font_size ELSE 0
    IN  [text |-> text_part, bbox |-> bbox_coords, slot |-> "box",
         font_size |-> IF openai_font_size # 0 THEN openai_font_size
                       ELSE CalculateOptimalFontSize(TextLength[text_part],
                                                     bbox_width, bbox_height,
                                                     40, 20, 80)]

\* the loop over zip(text_list, scaled_bboxes)
RECURSIVE DrawLoop(_, _, _, _)
DrawLoop(text_list, scaled_bboxes, scaled, i) ==
    IF i > Len(text_list) \/ i > Len(scaled_bboxes) THEN <<>>
    ELSE IF Len(scaled_bboxes[i].bbox) # 4
    THEN DrawLoop(text_list, scaled_bboxes, scaled, i + 1)
    ELSE <<DrawnAt(text_list[i], scaled_bboxes[i], scaled)>>
             \o DrawLoop(text_list, scaled_bboxes, scaled, i + 1)

NoSource == <<>>

NotDrawn == [raised |-> TRUE, draws |-> <<>>]

\* MemeService.apply_text_to_template_with_bboxes on a template of the given
\* shape; source_shape is the shape of source_image_path, NoSource when that
\* is None; saved is whether the template could be opened and the result
\* written
ApplyTextToTemplateWithBboxes(template_shape, text_list, bounding_boxes, source_shape, saved) ==
    LET need_scaling == source_shape # NoSource
    IN  CHOOSE drawn \in
            {IF ~saved \/ scaled_bboxes.raised THEN NotDrawn
             ELSE [raised |-> FALSE,
                   draws |-> DrawLoop(text_list, scaled_bboxes.boxes,
                                      need_scaling, 1)] :
                scaled_bboxes \in
                    {IF need_scaling
                     THEN MapBoxes(bounding_boxes, source_shape, template_shape)
                     ELSE ReturnedBoxes(bounding_boxes)}} : TRUE

\* MemeService.generate_white_box_meme: top_text and bottom_text in white
\* boxes, one font size for both
GenerateWhiteBoxMeme(template_shape, text_parts, saved) ==
    LET top_text == IF Len(text_parts) > 0 THEN <<text_parts[1]>> ELSE <<>>
        bottom_text == IF Len(text_parts) > 1 THEN <<text_parts[2]>> ELSE <<>>
        length == (IF top_text = <<>> THEN 0 ELSE TextLength[top_text[1]])
                  + (IF bottom_text = <<>> THEN 0 ELSE TextLength[bottom_text[1]])
        font_size == CalculateOptimalFontSize(length, Float(template_shape[2], 1),
                                              template_shape[1] \div 8, 40, 20, 80)
        texts == top_text \o bottom_text
    IN  IF ~saved THEN NotDrawn
        ELSE [raised |-> FALSE,
              draws |-> [i \in 1..Len(texts) |->
                           [text |-> texts[i], bbox |-> <<>>,
                            slot |-> IF i = 1 /\ top_text # <<>> THEN "top"
                                     ELSE "bottom",
                            font_size |-> font_size]]]

\* MemeService.generate_meme_from_clean: the first part at the top, the last
\* at the bottom, the others between them (sizes are not followed here)
GenerateMemeFromClean(text_list, saved) ==
    IF ~saved THEN NotDrawn
    ELSE [raised |-> FALSE,
          draws |-> [i \in 1..Len(text_list) |->
                       [text |-> text_list[i], bbox |-> <<>>,
                        slot |-> IF i = 1 THEN "top"
                                 ELSE IF i = Len(text_list) THEN "bottom"
                                 ELSE "middle",
                        font_size |-> 0]]]

\* MemeService.remove_text_and_inpaint(min_confidence=0.5): the regions of
\* detect_text that are painted over and those that stay; with none to paint
\* over the cleaned file is a copy of the original
RemoveTextAndInpaint(bytes) ==
    LET text_results == OcrAndMerge(bytes)
        Erased(r) == r.conf > MinConfidence
        Kept(r) == ~Erased(r)
    IN  [copy_of_original |-> SelectSeq(text_results, Erased) = <<>>,
         erased |-> SelectSeq(text_results, Erased),
         remaining |-> SelectSeq(text_results, Kept)]

\* the order of the calls in smart_generate_meme
StepOrder == <<"clean", "search", "detect", "place">>

\* steps taken in any order
ReadyInAnyOrder(r, step) ==
    /\ r.pc = "running"
    /\ ~InSeq(step, r.trace)

\* the request has reached the call named step
Ready(r, step) ==
    /\ r.pc = "running"
    /\ Len(r.trace) < Len(StepOrder)
    /\ StepOrder[Len(r.trace) + 1] = step

NoOut ==
    [status |-> None, base |-> None, layout |-> None, draws |-> <<>>,
     from_template |-> FALSE, similarity_score |-> 0, attempts |-> <<>>,
     asked |-> None]

NoRequest ==
    [pc |-> "running", trace |-> <<>>, image |-> None, text_parts |-> <<>>,
     cleaned |-> [copy_of_original |-> FALSE, erased |-> <<>>, remaining |-> <<>>],
     top_results |-> <<>>, exists |-> FALSE, similar_path |-> None,
     similarity |-> 0, regions |-> <<>>, detected_on |-> None,
     answer |-> [raises |-> FALSE, keys |-> {}, font_size |-> SuggestedFontSize],
     out |-> NoOut]

\* the response after the render calls named in attempts, the last of which
\* returned
Placed(base, layout, drawn, from_template, similarity, attempts, asked) ==
    [status |-> "ok", base |-> base, layout |-> layout, draws |-> drawn.draws,
     from_template |-> from_template,
     similarity_score |-> IF from_template THEN similarity ELSE 0,
     attempts |-> attempts, asked |-> asked]

\* the 500 answer
NotPlaced(attempts, asked) ==
    [NoOut EXCEPT !.status = "error", !.attempts = attempts, !.asked = asked]

\* a render call of the route: which function, on which base image of which
\* shape, with which boxes, and what the route reports when it returns
RenderCallOf(kind, base, shape, boxes, source_shape, layout, from_template, similarity) ==
    [kind |-> kind, base |-> base, shape |-> shape, boxes |-> boxes,
     source_shape |-> source_shape, layout |-> layout,
     from_template |-> from_template, similarity |-> similarity]

NoCall == RenderCallOf("none", None, <<>>, <<>>, NoSource, None, FALSE, 0)

\* the render call a request makes first (lines 266-353 and 379-423): r is the
\* request, ai what generate_bounding_boxes_with_openai gave where it is asked
FirstCall(r, ai) ==
    LET source_shape == ShapeOf[r.image]
        found == r.similar_path # None /\ r.exists
    IN  IF ~found
        THEN IF r.regions # <<>>
             THEN RenderCallOf("apply", "cleaned", source_shape, r.regions,
                               source_shape, "detected_boxes", FALSE, 0)
             ELSE IF r.top_results # <<>>
             THEN \* the best match, "even if below 80% threshold"
                  IF ai.raised THEN NoCall
                  ELSE IF ai.boxes # <<>>
                  THEN RenderCallOf("apply", "template", TemplateShape, ai.boxes,
                                    NoSource, "suggested_boxes", TRUE,
                                    r.top_results[1].score)
                  ELSE RenderCallOf("white_box", "template", TemplateShape, <<>>,
                                    NoSource, "white_box", TRUE,
                                    r.top_results[1].score)
             ELSE \* "No template available, use cleaned image"
                  IF ai.raised THEN NoCall
                  ELSE IF ai.boxes # <<>>
                  THEN RenderCallOf("apply", "cleaned", source_shape, ai.boxes,
                                    source_shape, "suggested_boxes", FALSE, 0)
                  ELSE RenderCallOf("from_clean", "cleaned", source_shape, <<>>,
                                    NoSource, "top_middle_bottom", FALSE, 0)
        ELSE IF r.regions # <<>>
             THEN RenderCallOf("apply", "template", TemplateShape, r.regions,
                               source_shape, "detected_boxes", TRUE, r.similarity)
             ELSE IF ai.raised THEN NoCall
             ELSE IF ai.boxes # <<>>
             THEN RenderCallOf("apply", "template", TemplateShape, ai.boxes,
                               NoSource, "suggested_boxes", TRUE, r.similarity)
             ELSE RenderCallOf("white_box", "template", TemplateShape, <<>>,
                               NoSource, "white_box", TRUE, r.similarity)

\* an except branch that always places top/middle/bottom on the cleaned image
FallbackCallFromClean(r) ==
    IF r.regions # <<>> THEN NoCall
    ELSE RenderCallOf("from_clean", "cleaned", ShapeOf[r.image], <<>>, NoSource,
                      "top_middle_bottom", FALSE, 0)

\* the render call of the except branch (lines 357-364 and 426-432); with
\* detected regions there is no try around the render call
FallbackCall(r) ==
    LET found == r.similar_path # None /\ r.exists
    IN  IF r.regions # <<>> THEN NoCall
        ELSE IF ~found
        THEN RenderCallOf("from_clean", "cleaned", ShapeOf[r.image], <<>>,
                          NoSource, "top_middle_bottom", FALSE, 0)
        ELSE RenderCallOf("white_box", "template", TemplateShape, <<>>, NoSource,
                          "white_box", TRUE, r.similarity)

\* the render function of a call
RenderCall(call, text_parts, saved) ==
    IF call.kind = "apply"
    THEN ApplyTextToTemplateWithBboxes(call.shape, text_parts, call.boxes,
                                       call.source_shape, saved)
    ELSE IF call.kind = "white_box"
    THEN GenerateWhiteBoxMeme(call.shape, text_parts, saved)
    ELSE IF call.kind = "from_clean"
    THEN GenerateMemeFromClean(text_parts, saved)
    ELSE NotDrawn

\* the response from the first call and, when that raised or the suggester
\* raised, from the call of the except branch
Respond(first, second, d1, d2, asked) ==
    LET attempts == IF first.kind = "none" THEN <<>> ELSE <<first.layout>>
    IN  IF first.kind # "none" /\ ~d1.raised
        THEN Placed(first.base, first.layout, d1, first.from_template,
                    first.similarity, attempts, asked)
        ELSE IF second.kind = "none" THEN NotPlaced(attempts, asked)
        ELSE IF d2.raised THEN NotPlaced(Append(attempts, second.layout), asked)
        ELSE Placed(second.base, second.layout, d2, second.from_template,
                    second.similarity, Append(attempts, second.layout), asked)

\* lines 255-433 of smart_generate_meme: the render calls made for the
\* request r with the vision model's answer; saved is whether the first
\* render call can open and write its files, fallback_saved the one made in
\* the except branch
PlaceOutcome(r, answer, saved, fallback_saved) ==
    LET found == r.similar_path # None /\ r.exists
        asked == IF r.regions # <<>> THEN None
                 ELSE IF found \/ r.top_results # <<>> THEN "template"
                 ELSE "original"
        \* the template of a match below the threshold is not tested for
        \* existence before it is handed to the suggester
        readable == found \/ r.top_results = <<>> \/ r.exists
        ai == IF asked = None THEN ReturnedBoxes(<<>>)
              ELSE GenerateBoundingBoxesWithOpenai(readable, r.text_parts, answer)
        first == FirstCall(r, ai)
        second == FallbackCall(r)
        \* a template file that does not exist cannot be opened
        opens(call) == call.base = "template" => r.exists
    IN  CHOOSE out \in
            {Respond(first, second, d1, d2, asked) :
                d1 \in {RenderCall(first, r.text_parts, saved /\ opens(first))},
                d2 \in {RenderCall(second, r.text_parts,
                                   fallback_saved /\ opens(second))}} : TRUE

\* a handler without the except around its body: an exception leaves the
\* request without a response
ReturnsWithoutExcept(out) == IF out.status = "ok" THEN "done" ELSE "running"

\* lines 149 and 525-527: the body of the handler is one try, an exception
\* that no inner except caught is answered with status 500
Returns(out) == IF out.status = "ok" THEN "done" ELSE "error"

InitRequest ==
    /\ req \in {[NoRequest EXCEPT !.image = b, !.text_parts = TextParts(n)] :
                   b \in ImageBytes, n \in 0..MaxCaptions}
    /\ ParkedIndex
    /\ ParkedConc
    /\ ParkedMerge
    /\ ParkedDetect
    /\ ParkedPure
    /\ ParkedServe

\* lines 213-224: remove_text_and_inpaint on the request image; readable is
\* whether cv2 can decode the upload
Clean(readable) ==
    /\ Ready(req, "clean")
    /\ req' = IF readable
              THEN [req EXCEPT !.trace = Append(@, "clean"),
                               !.cleaned = RemoveTextAndInpaint(req.image)]
              ELSE [req EXCEPT !.pc = Returns(NotPlaced(<<>>, None)),
                               !.out = NotPlaced(<<>>, None)]
    /\ UNCHANGED <<idxVars, concVars, mergeVars, detectVars, pureVars, serveVars>>

\* lines 228-252: search_top_k on the cleaned image and the test against 0.8
TemplateSearch(top_results, exists) ==
    /\ Ready(req, "search")
    /\ LET found == top_results # <<>> /\ top_results[1].score >= TemplateThreshold
       IN  req' = [req EXCEPT
                     !.trace = Append(@, "search"),
                     !.top_results = top_results,
                     !.exists = exists,
                     !.similar_path = IF found THEN top_results[1].path ELSE None,
                     !.similarity = IF found THEN top_results[1].score ELSE 0]
    /\ UNCHANGED <<idxVars, concVars, mergeVars, detectVars, pureVars, serveVars>>

\* lines 260 and 373: detect_text(local_image_path); detected is whether the
\* OCR engine returned, an exception of it reaches the except of the handler
TextDetect(detected) ==
    /\ Ready(req, "detect")
    /\ req' = IF detected
              THEN [req EXCEPT !.trace = Append(@, "detect"),
                               !.regions = OcrAndMerge(req.image),
                               !.detected_on = "original"]
              ELSE [req EXCEPT !.pc = Returns(NotPlaced(<<>>, None)),
                               !.out = NotPlaced(<<>>, None)]
    /\ UNCHANGED <<idxVars, concVars, mergeVars, detectVars, pureVars, serveVars>>

\* lines 266-433 and the response
Place(answer, saved, fallback_saved) ==
    /\ Ready(req, "place")
    /\ \E out \in {PlaceOutcome(req, answer, saved, fallback_saved)} :
           req' = [req EXCEPT !.trace = Append(@, "place"),
                              !.answer = answer,
                              !.out = out,
                              !.pc = Returns(out)]
    /\ UNCHANGED <<idxVars, concVars, mergeVars, detectVars, pureVars, serveVars>>

NextRequest ==
    \/ \E readable \in BOOLEAN : Clean(readable)
    \/ \E top_results \in TopResults, exists \in BOOLEAN :
          TemplateSearch(top_results, exists)
    \/ \E detected \in BOOLEAN : TextDetect(detected)
    \/ \E answer \in AIAnswers, saved, fallback_saved \in BOOLEAN :
          Place(answer, saved, fallback_saved)

SpecRequest == InitRequest /\ [][NextRequest]_vars

\* the handler runs in a thread of the worker: as long as a call of it can
\* return or raise, the next step is taken
SpecRequestFair == SpecRequest /\ WF_vars(NextRequest)

----------------------------------------------------------------------------
(* Two requests in the threads of one worker (gunicorn.conf.py: workers = 1, *)
(* worker_class "gthread", threads = 4).  Each thread runs                   *)
(* smart_generate_meme on its own request; the threads share the clock, the  *)
(* data directories and the OCR cache directory.                             *)

\* the last second the clock reaches
MaxClock == 1
Stamps == 0..MaxClock

\* the name a request image is saved under after the timestamp: the fixed
\* name of an image fetched by URL, or secure_filename of the upload
UploadNames == {"url_image.jpg", "cat.jpg"}
UploadImages == {"meme", "blank"}

\* a file name: directory, the timestamp in it, the rest of the name
FileNames ==
    ({"user_query_meme", "cleaned_images", "user_response_meme"}
        \X Stamps \X UploadNames)
    \cup ({"generated_memes"} \X Stamps \X (UploadNames \cup {"with_bboxes"}))
    \cup {<<"generated_memes", 0, "whitebox_template">>}

Absent == [form |-> "absent", of |-> None, caption |-> 0]
\* the contents of a file: which image it was made from and, for a meme, the
\* request whose caption is drawn on it
Content(form, of, caption) == [form |-> form, of |-> of, caption |-> caption]

NoHandler ==
    [pc |-> "idle", timestamp |-> 0, filename |-> None, image |-> None,
     ocr_reader |-> FALSE, meme_path |-> None, sent |-> Absent]

\* lines 184-205: f"{timestamp}_url_image.jpg" or f"{timestamp}_{filename}"
LocalImagePath(h) == <<"user_query_meme", h.timestamp, h.filename>>
\* lines 215-217: f"cleaned_{original_filename}"
CleanedImagePath(h) == <<"cleaned_images", h.timestamp, h.filename>>
\* lines 439-440: f"response_{os.path.basename(local_image_path)}"
OutputPath(h) == <<"user_response_meme", h.timestamp, h.filename>>

\* the render calls of the route by function and base image
RenderCalls ==
    {[kind |-> "apply", base |-> "cleaned"], [kind |-> "apply", base |-> "template"],
     [kind |-> "white_box", base |-> "template"],
     [kind |-> "from_clean", base |-> "cleaned"]}

\* the default output path of each render function: meme_with_bboxes_<now>.jpg
\* (meme_service.py 1258-1261), whitebox_<template name> (788-792),
\* meme_<name of the cleaned file> (1063-1067)
MemePath(h, call, clock) ==
    IF call.kind = "apply" THEN <<"generated_memes", clock, "with_bboxes">>
    ELSE IF call.kind = "white_box" THEN <<"generated_memes", 0, "whitebox_template">>
    ELSE <<"generated_memes", h.timestamp, h.filename>>

\* detect_text of the MemeService of h on an image: whether the ocr_reader
\* property constructs easyocr.Reader (no cached result, and this object has
\* no reader yet)
OcrReaderConstructed(h, bytes, cache) == bytes \notin cache /\ ~h.ocr_reader

InitServe ==
    /\ now = 0
    /\ disk = [f \in FileNames |-> Absent]
    /\ handler = [t \in Threads |-> NoHandler]
    /\ constructed = [ocr |-> 0, clip |-> 0]
    /\ hashes = {}
    /\ ParkedIndex
    /\ ParkedConc
    /\ ParkedMerge
    /\ ParkedDetect
    /\ ParkedPure
    /\ ParkedRequest

\* the clock reaches the next second
Tick ==
    /\ now < MaxClock
    /\ now' = now + 1
    /\ UNCHANGED <<disk, handler, constructed, hashes>>
    /\ UNCHANGED <<idxVars, concVars, mergeVars, detectVars, pureVars, req>>

\* lines 184-205: the timestamp is taken and the request image is written
Receive(t, filename, image) ==
    /\ handler[t].pc = "idle"
    /\ handler' = [handler EXCEPT ![t] =
                      [@ EXCEPT !.pc = "received", !.timestamp = now,
                                !.filename = filename, !.image = image]]
    /\ disk' = [disk EXCEPT ![<<"user_query_meme", now, filename>>] =
                                Content("original", image, 0)]
    /\ UNCHANGED <<now, constructed, hashes>>
    /\ UNCHANGED <<idxVars, concVars, mergeVars, detectVars, pureVars, req>>

\* lines 209-211: MemeService() starts without a reader, ImageVectorDB()
\* loads the CLIP model in its constructor (image_vector_db.py 13-33)
Construct(t) ==
    /\ handler[t].pc = "received"
    /\ handler' = [handler EXCEPT ![t] = [@ EXCEPT !.pc = "constructed",
                                                   !.ocr_reader = FALSE]]
    /\ constructed' = [constructed EXCEPT !.clip = @ + 1]
    /\ UNCHANGED <<now, disk, hashes>>
    /\ UNCHANGED <<idxVars, concVars, mergeVars, detectVars, pureVars, req>>

\* lines 213-224, remove_text_and_inpaint(local_image_path, output_path):
\* an existing output file is returned as it is (meme_service.py 341-344),
\* otherwise detect_text reads the request file and the cleaned file is
\* written; dumped is whether the OCR result reached the cache
CleanFile(t, dumped) ==
    LET h == handler[t]
        source == disk[LocalImagePath(h)]
        built == OcrReaderConstructed(h, source.of, hashes)
    IN  /\ h.pc = "constructed"
        /\ IF disk[CleanedImagePath(h)] # Absent
           THEN /\ handler' = [handler EXCEPT ![t] = [@ EXCEPT !.pc = "cleaned"]]
                /\ UNCHANGED <<disk, constructed, hashes>>
           ELSE /\ handler' = [handler EXCEPT ![t] =
                                  [@ EXCEPT !.pc = "cleaned",
                                            !.ocr_reader = @ \/ built]]
                /\ constructed' = [constructed EXCEPT
                                      !.ocr = IF built THEN @ + 1 ELSE @]
                /\ hashes' = IF dumped THEN hashes \cup {source.of} ELSE hashes
                /\ disk' = [disk EXCEPT ![CleanedImagePath(h)] =
                                            Content("cleaned", source.of, 0)]
        /\ UNCHANGED now
        /\ UNCHANGED <<idxVars, concVars, mergeVars, detectVars, pureVars, req>>

\* lines 228-433: the search, detect_text(local_image_path) and one render
\* call, which draws the captions of this request on its base image and
\* writes the file of its default output path
Render(t, call, dumped) ==
    LET h == handler[t]
        source == disk[LocalImagePath(h)]
        built == OcrReaderConstructed(h, source.of, hashes)
        base == IF call.base = "cleaned" THEN disk[CleanedImagePath(h)].of
                ELSE "template"
        meme_path == MemePath(h, call, now)
    IN  /\ h.pc = "cleaned"
        /\ handler' = [handler EXCEPT ![t] =
                          [@ EXCEPT !.pc = "rendered", !.meme_path = meme_path,
                                    !.ocr_reader = @ \/ built]]
        /\ constructed' = [constructed EXCEPT !.ocr = IF built THEN @ + 1 ELSE @]
        /\ hashes' = IF dumped THEN hashes \cup {source.of} ELSE hashes
        /\ disk' = [disk EXCEPT ![meme_path] = Content("meme", base, t)]
        /\ UNCHANGED now
        /\ UNCHANGED <<idxVars, concVars, mergeVars, detectVars, pureVars, req>>

\* lines 438-443: shutil.copy2(meme_path, output_path)
CopyResponse(t) ==
    LET h == handler[t]
    IN  /\ h.pc = "rendered"
        /\ handler' = [handler EXCEPT ![t] = [@ EXCEPT !.pc = "copied"]]
        /\ disk' = [disk EXCEPT ![OutputPath(h)] = disk[h.meme_path]]
        /\ UNCHANGED <<now, constructed, hashes>>
        /\ UNCHANGED <<idxVars, concVars, mergeVars, detectVars, pureVars, req>>

\* lines 519-524: send_file(output_path)
SendFile(t) ==
    LET h == handler[t]
    IN  /\ h.pc = "copied"
        /\ handler' = [handler EXCEPT ![t] = [@ EXCEPT !.pc = "done",
                                                       !.sent = disk[OutputPath(h)]]]
        /\ UNCHANGED <<now, disk, constructed, hashes>>
        /\ UNCHANGED <<idxVars, concVars, mergeVars, detectVars, pureVars, req>>

NextServe ==
    \/ Tick
    \/ \E t \in Threads :
          \/ \E filename \in UploadNames, image \in UploadImages :
                Receive(t, filename, image)
          \/ Construct(t)
          \/ \E dumped \in BOOLEAN : CleanFile(t, dumped)
          \/ \E call \in RenderCalls, dumped \in BOOLEAN : Render(t, call, dumped)
          \/ CopyResponse(t)
          \/ SendFile(t)

SpecServe == InitServe /\ [][NextServe]_vars

\* C22 as claimed: the constructor of the OCR engine and the constructor of
\* the embedding extractor each run at most once in the worker, however many
\* requests it serves and however their first uses interleave.
ModelsConstructedOnce ==
    /\ constructed.ocr <= 1
    /\ constructed.clip <= 1

\* C28 as claimed: the response of a request is the meme drawn with that
\* request's captions on that request's image (or on a template), and the
\* request, cleaned and response files a request works on hold what that
\* request put there.
ResponseIsOfOwnRequest ==
    \A t \in Threads :
        LET h == handler[t]
        IN  /\ h.pc \in {"received", "constructed"} =>
                  disk[LocalImagePath(h)].of = h.image
            /\ h.pc \in {"cleaned", "rendered"} =>
                  disk[CleanedImagePath(h)].of = h.image
            /\ h.pc = "done" =>
                  /\ h.sent.form = "meme"
                  /\ h.sent.caption = t
                  /\ h.sent.of \in {h.image, "template"}

----------------------------------------------------------------------------
(* Properties of a request *)

\* the index returned a match at or above the threshold whose file exists
TemplateFound == req.similar_path # None /\ req.exists
\* the placement step of the request has run
PlaceRan == Len(req.trace) = Len(StepOrder)
\* what the suggester returns for the request's captions and the answer the
\* vision model gave, on an image it can read
Suggested == GenerateBoundingBoxesWithOpenai(TRUE, req.text_parts, req.answer)
\* the detected regions mapped from the request image onto the template
MappedRegions == MapBoxes(req.regions, ShapeOf[req.image], TemplateShape)

\* C15 as claimed: with a template found and regions detected, every caption
\* of a completed request is drawn on the template, caption i at region i
\* mapped onto the template, with the fitted font size of that box.
TemplateRegionsDrawEveryCaption ==
    (req.pc = "done" /\ TemplateFound /\ req.regions # <<>>) =>
        /\ req.out.base = "template"
        /\ ~MappedRegions.raised
        /\ Len(req.out.draws) = Len(req.text_parts)
        /\ \A i \in 1..Len(req.text_parts) :
              /\ i <= Len(MappedRegions.boxes)
              /\ req.out.draws[i] =
                     DrawnAt(req.text_parts[i], MappedRegions.boxes[i], TRUE)

\* C16 as claimed: the request image is cleaned first, and a completed render
\* without a template is on the cleaned image, at the boxes detected on the
\* original when there are any, with no detected region left on that base.
NonTemplateBaseIsCleaned ==
    /\ req.trace # <<>> => req.trace[1] = "clean"
    /\ (req.pc = "done" /\ ~req.out.from_template) =>
          /\ req.out.base = "cleaned"
          /\ req.regions # <<>> => req.out.layout = "detected_boxes"
          /\ req.cleaned.remaining = <<>>

\* C17: with a template found and no region detected, the suggester is asked
\* about the template; a completed request is on the template with
\* from_template true, its captions at the suggested boxes, or in the white
\* top/bottom boxes when the suggester raised, returned no box or the render
\* at the suggested boxes raised; the request fails only when the white-box
\* render raised.
TemplateNoRegionsSuggestsOrWhiteBox ==
    (PlaceRan /\ TemplateFound /\ req.regions = <<>>) =>
        /\ req.out.asked = "template"
        /\ req.pc = "done" =>
              /\ req.out.base = "template"
              /\ req.out.from_template
              /\ req.out.similarity_score = req.similarity
              /\ req.out.layout \in {"suggested_boxes", "white_box"}
              /\ req.out.layout = "suggested_boxes" =>
                    /\ ~Suggested.raised
                    /\ Suggested.boxes # <<>>
                    /\ req.out.draws = DrawLoop(req.text_parts, Suggested.boxes,
                                                FALSE, 1)
              /\ (Suggested.raised \/ Suggested.boxes = <<>>) =>
                    req.out.layout = "white_box"
              /\ req.out.layout = "white_box" =>
                    req.out.draws =
                        GenerateWhiteBoxMeme(TemplateShape, req.text_parts, TRUE).draws
        /\ req.pc = "error" =>
              /\ req.out.attempts # <<>>
              /\ req.out.attempts[Len(req.out.attempts)] = "white_box"

\* a request on a template whose suggester raised, completed in white boxes
WhiteBoxAfterSuggesterRaisedSeen ==
    /\ req.pc = "done"
    /\ TemplateFound
    /\ req.regions = <<>>
    /\ req.answer.raises
    /\ Len(req.text_parts) = MaxCaptions
    /\ req.out.layout = "white_box"
    /\ req.out.from_template
    /\ Len(req.out.draws) = 2

\* C18 as claimed: with no template and no region detected, a completed
\* request is on the cleaned image, at the suggested boxes whenever the
\* suggester returned boxes, and top/middle/bottom only when it did not.
NoTemplateNoRegionsUsesSuggestion ==
    (req.pc = "done" /\ ~TemplateFound /\ req.regions = <<>>) =>
        /\ req.out.base = "cleaned"
        /\ ~req.out.from_template
        /\ IF ~req.answer.raises /\ Suggested.boxes # <<>>
           THEN /\ req.out.layout = "suggested_boxes"
                /\ Len(req.out.draws) = Len(Suggested.boxes)
           ELSE req.out.layout = "top_middle_bottom"

\* C19 as claimed: when the suggester is asked and its answer is malformed or
\* lacks the key of a caption, the output is not drawn at suggested boxes and
\* the request does not fail without a fallback render having been tried.
IncompleteSuggestionFallsThrough ==
    (PlaceRan /\ req.out.asked # None
        /\ (req.answer.raises
               \/ \E i \in 1..Len(req.text_parts) : i \notin req.answer.keys)) =>
        /\ req.out.layout # "suggested_boxes"
        /\ req.out.status = "error" => req.out.attempts # <<>>

BoxFontSizeWithinBounds ==
    (req.pc = "done" /\ req.out.layout \in {"detected_boxes", "suggested_boxes"}) =>
        \A i \in 1..Len(req.out.draws) :
            /\ 20 <= req.out.draws[i].font_size
            /\ req.out.draws[i].font_size <= 80

\* the request was answered, with the meme or with the error response
Answered == req.pc \in {"done", "error"}

\* C21: whatever fails among cleaning (OCR, inpainting), the search, text
\* detection, the suggester and the render calls with their output writes,
\* the request ends with a response: the meme of the first or of the fallback
\* call, or the error response of the handler; an answered request stays
\* answered and no other outcome exists.
EveryRequestIsAnswered ==
    /\ [](req.pc \in {"running", "done", "error"})
    /\ [](req.pc = "done" => (req.out.status = "ok" /\ req.out.layout # None))
    /\ [](req.pc = "error" => req.out.status = "error")
    /\ [][Answered => UNCHANGED req]_vars
    /\ <>Answered

\* a request answered with the error response after the suggester raised and
\* the render call of the except branch failed as well
ErrorAfterFailedFallbackSeen ==
    /\ req.pc = "error"
    /\ req.trace = StepOrder
    /\ req.answer.raises
    /\ req.out.attempts # <<>>
    /\ req.out.draws = <<>>

----------------------------------------------------------------------------
(* Properties of the index *)

\* the score of record i of the shared object against the image at path p
ScoreOf(i, p) == Dot(db.embeddings[i], Embedding(p))
Records == 1..Len(db.embeddings)
\* the self-similarity of the image at path p
SelfScore(p) == Dot(Embedding(p), Embedding(p))

\* C4: add_image with a path that is already in the index returns True and
\* leaves the vectors, the paths, their order and the backing file unchanged.
AddPresentPathIsSilentSuccess ==
    [][(last'.op = "add" /\ InSeq(last'.path, db.image_paths))
          => (last'.ret = "True" /\ db' = db /\ file' = file)]_vars

AddPresentPathSeen ==
    /\ last.op = "add"
    /\ last.branch = "present"
    /\ last.ret = "True"
    /\ Len(db.image_paths) = MaxIdx

\* C5: search returns the path and score of the record with the highest
\* similarity when that similarity reaches the threshold, the first inserted
\* among equal best records, and no path otherwise, also on an empty index.
SearchReturnsFirstBest ==
    (last.op = "search" /\ last.ret # "raise") =>
        IF \E i \in Records : ScoreOf(i, last.path) >= last.threshold
        THEN \E i \in Records :
                /\ last.ret = db.image_paths[i]
                /\ last.score = ScoreOf(i, last.path)
                /\ \A j \in Records : ScoreOf(j, last.path) <= ScoreOf(i, last.path)
                /\ \A j \in Records :
                       j < i => ScoreOf(j, last.path) < ScoreOf(i, last.path)
        ELSE last.ret = None

\* a search answered with the first of two equally best records
SearchTieSeen ==
    /\ last.op = "search"
    /\ \E i, j \in Records :
          /\ i < j
          /\ ScoreOf(i, last.path) = ScoreOf(j, last.path)
          /\ last.ret = db.image_paths[i]
          /\ last.score = ScoreOf(i, last.path)

\* C6: search_top_k returns at most k records of the index, each with its
\* score and a score >= threshold, best first; a record that reaches the
\* threshold is left out only when k records scoring at least as high are
\* returned; k <= 0, an empty index or a failed extraction give the empty list.
TopKIsThresholdedTopK ==
    last.op = "search_top_k" =>
        LET res == last.results
            Returned(x) == \E i \in 1..Len(res) : res[i].idx = x
        IN  /\ Len(res) <= (IF last.k > 0 THEN last.k ELSE 0)
            /\ \A i \in 1..Len(res) :
                  /\ res[i].idx \in Records
                  /\ res[i].path = db.image_paths[res[i].idx]
                  /\ res[i].score = ScoreOf(res[i].idx, last.path)
                  /\ res[i].score >= last.threshold
            /\ \A i, j \in 1..Len(res) :
                  i < j => res[i].idx # res[j].idx /\ res[i].score >= res[j].score
            /\ last.branch = "searched" =>
                  \A x \in Records :
                      (~Returned(x) /\ ScoreOf(x, last.path) >= last.threshold) =>
                          /\ Len(res) = last.k
                          /\ \A i \in 1..Len(res) :
                                 res[i].score >= ScoreOf(x, last.path)
            /\ last.branch # "searched" => res = <<>>

\* a top-k search that left a record above the threshold out
TopKCutSeen ==
    /\ last.op = "search_top_k"
    /\ last.branch = "searched"
    /\ Len(last.results) = last.k
    /\ \E x \in Records :
          /\ \A i \in 1..Len(last.results) : last.results[i].idx # x
          /\ ScoreOf(x, last.path) >= last.threshold

\* C7 as claimed: a search with an indexed image as the query returns that
\* image's own path, for every threshold up to 1.
SearchOfAddedReturnsOwnPath ==
    (last.op = "search" /\ last.branch = "searched"
        /\ InSeq(last.path, db.image_paths)) => last.ret = last.path

\* C7 as amended: a search with an indexed image as the query and a threshold
\* not above the image's self-similarity returns the first inserted of the
\* records with the maximal score, which is at least the self-similarity;
\* that record is the image's own unless an earlier record scores as high.
SearchOfAddedReturnsFirstBest ==
    (last.op = "search" /\ last.branch = "searched"
        /\ InSeq(last.path, db.image_paths)
        /\ last.threshold <= SelfScore(last.path)) =>
        \E i \in Records :
            /\ last.ret = db.image_paths[i]
            /\ last.score = ScoreOf(i, last.path)
            /\ last.score >= SelfScore(last.path)
            /\ \A j \in Records : ScoreOf(j, last.path) <= last.score
            /\ \A j \in Records : j < i => ScoreOf(j, last.path) < last.score
            /\ \/ last.ret = last.path
               \/ \E j \in Records :
                     /\ j <= i
                     /\ db.image_paths[j] # last.path
                     /\ ScoreOf(j, last.path) >= SelfScore(last.path)

\* an indexed image found under its own path at a threshold equal to its
\* self-similarity, after an add that followed its own
SearchOfAddedSeen ==
    /\ last.op = "search"
    /\ last.ret = last.path
    /\ last.threshold = SelfScore(last.path)
    /\ Len(db.image_paths) = MaxIdx
    /\ db.image_paths[1] = last.path

\* C8: when the embedding cannot be extracted for the image passed to
\* add_image, no vector and no path is appended, the backing file is not
\* written and the call returns False.
FailedExtractionLeavesIndex ==
    [][(last'.op = "add" /\ last'.branch = "embed_failed")
          => (db' = db /\ file' = file /\ ~last'.saved /\ last'.ret = "False")]_vars

FailedExtractionSeen ==
    /\ last.op = "add"
    /\ last.branch = "embed_failed"
    /\ last.ret = "False"
    /\ db.embeddings # <<>>
    /\ file.state = "ok"

\* C9: an index opened on a missing or unreadable backing file is empty, and
\* the add and the searches that follow act as on a new empty index: the add
\* makes the image the only record (and, saved, the file's only record), the
\* searches find nothing.
OpenedOnBadFile == last.op = "open" /\ last.branch \in {"missing", "corrupt"}

BadFileOpensEmpty ==
    /\ [](OpenedOnBadFile => db = EmptyIndex)
    /\ [][OpenedOnBadFile =>
            /\ (last'.op = "add" /\ last'.branch # "embed_failed") =>
                  /\ last'.ret = "True"
                  /\ db' = [embeddings |-> <<Embedding(last'.path)>>,
                            image_paths |-> <<last'.path>>]
                  /\ file' \in {file, [state |-> "ok",
                                       embeddings |-> db'.embeddings,
                                       image_paths |-> db'.image_paths]}
            /\ last'.op = "search" => last'.ret = None /\ last'.score = 0]_vars

\* an index opened on a damaged file that held records
BadFileOpenSeen ==
    /\ OpenedOnBadFile
    /\ file.state = "corrupt"
    /\ file.embeddings # <<>>
    /\ db = EmptyIndex

\* the record of path p, with its vector, is in the index ix
HasRecord(ix, p) ==
    \E i \in 1..Len(ix.image_paths) :
        /\ ix.image_paths[i] = p
        /\ i <= Len(ix.embeddings)
        /\ ix.embeddings[i] = Embedding(p)

\* C30 as claimed: when add_image(p) returns True, an index object built
\* afterwards from the backing file holds p with its vector, and holds every
\* record the index held before the add, in the same order.
SuccessfulAddIsPersisted ==
    [][(last'.op = "add" /\ last'.ret = "True") =>
          /\ HasRecord(Load(file'), last'.path)
          /\ Len(Load(file').image_paths) >= Len(db.image_paths)
          /\ SubSeq(Load(file').image_paths, 1, Len(db.image_paths)) = db.image_paths
          /\ SubSeq(Load(file').embeddings, 1, Len(db.embeddings)) = db.embeddings]_vars

====
